---- MODULE Spec2Model ----
(***************************************************************************)
(* A model of load-forge's runtime: the asynchronous load executor         *)
(* (runtime/load_executor.py) with its metrics collector                   *)
(* (runtime/metrics.py), and the synchronous runner (runtime/runner.py)    *)
(* with the auth preflight (runtime/auth.py) and the scenario interpreter  *)
(* (runtime/executor.py).                                                  *)
(*                                                                         *)
(* Virtual users are asyncio tasks on one event loop: a task runs without  *)
(* interruption from one await to the next.  Every action below is one     *)
(* such uninterrupted run of one task.                                     *)
(***************************************************************************)
EXTENDS Integers, Sequences, FiniteSets, TLC

(***************************************************************************)
(* Bounds of the model.                                                    *)
(***************************************************************************)
\* the largest num_users tried
MaxUsers == 2
\* the largest ramp-up and duration tried, in seconds
MaxSeconds == 2
\* a run issues at most this many scenario requests
MaxRequests == 3
\* a timer of the event loop fires at most this many ticks late
MaxLate == 1
\* the most bindings of an environment or variables block tried
MaxEntries == 3
\* the most pieces a template tried is made of
MaxTokens == 3
\* the most values of a latency list, and records of a collector, tried
MaxValues == 3

\* the timeout of asyncio.wait in run_load_test_async, in seconds
GRACE_SECONDS == 30

RECURSIVE Gcd(_, _)
Gcd(a, b) == IF b = 0 THEN a ELSE Gcd(b, a % b)

RECURSIVE LcmUpTo(_)
LcmUpTo(n) == IF n <= 1 THEN 1 ELSE (LcmUpTo(n - 1) * n) \div Gcd(LcmUpTo(n - 1), n)

\* Clock ticks per second: ramp_up_seconds / num_users is then a whole
\* number of ticks for every num_users in 1..MaxUsers.
TicksPerSecond == LcmUpTo(MaxUsers)

Ticks(seconds) == seconds * TicksPerSecond

(***************************************************************************)
(* Strings are sequences of one-character strings, so that strip, the      *)
(* template pattern and substitution are computed as Python computes them. *)
(***************************************************************************)
Letters ==
    {"a", "b", "c", "d", "e", "f", "g", "h", "i", "j", "k", "l", "m",
     "n", "o", "p", "q", "r", "s", "t", "u", "v", "w", "x", "y", "z",
     "A", "B", "C", "D", "E", "F", "G", "H", "I", "J", "K", "L", "M",
     "N", "O", "P", "Q", "R", "S", "T", "U", "V", "W", "X", "Y", "Z"}

Digits == {"0", "1", "2", "3", "4", "5", "6", "7", "8", "9"}

\* [A-Za-z_] and [A-Za-z0-9_] of _VAR_PATTERN
IdStart == Letters \cup {"_"}
IdChar == IdStart \cup Digits

Whitespace == {" ", "\t", "\n", "\r"}

RECURSIVE LStrip(_, _)
LStrip(s, chars) ==
    IF s # <<>> /\ Head(s) \in chars THEN LStrip(Tail(s), chars) ELSE s

RECURSIVE RStrip(_, _)
RStrip(s, chars) ==
    IF s # <<>> /\ s[Len(s)] \in chars
    THEN RStrip(SubSeq(s, 1, Len(s) - 1), chars) ELSE s

\* str.strip(chars)
Strip(s, chars) == RStrip(LStrip(s, chars), chars)

\* s.strip().strip('"')
Unquote(s) == Strip(Strip(s, Whitespace), {"\""})

\* a literal of the source text: the string between double quotes
Quoted(s) == <<"\"">> \o s \o <<"\"">>

(***************************************************************************)
(* Errors: the text of an exception, kept as its parts.                    *)
(***************************************************************************)
Err(kind, exp, got, name) == [kind |-> kind, exp |-> exp, got |-> got, name |-> name]

NoError == Err("none", 0, 0, <<>>)

\* the result of a call that may raise: ok, with a value, or an error
Ok(val) == [ok |-> TRUE, val |-> val, err |-> NoError]
Raise(err) == [ok |-> FALSE, val |-> <<>>, err |-> err]

(***************************************************************************)
(* runtime/context.py and runtime/interpolate.py                           *)
(***************************************************************************)
resolve_ref(name, c) ==
    IF name \notin DOMAIN c
    THEN Raise(Err("Reference not found", 0, 0, name))
    ELSE Ok(c[name])

\* a ValueOrRef: None, or its value (a literal of the source) and its ref
NoneVor == [none |-> TRUE, value |-> <<>>, ref |-> <<>>]
ValueVor(s) == [none |-> FALSE, value |-> s, ref |-> <<>>]
RefVor(name) == [none |-> FALSE, value |-> <<>>, ref |-> name]

resolve_value_or_ref(vor, c) ==
    IF vor.none THEN Raise(Err("Missing value", 0, 0, <<>>))
    ELSE IF vor.value # <<>> THEN Ok(Unquote(vor.value))
    ELSE IF vor.ref # <<>> THEN resolve_ref(vor.ref, c)
    ELSE Raise(Err("Invalid ValueOrRef", 0, 0, <<>>))

\* the end of the identifier that starts at position i of s
RECURSIVE IdEnd(_, _)
IdEnd(s, i) == IF i <= Len(s) /\ s[i] \in IdChar THEN IdEnd(s, i + 1) ELSE i

\* the position of the closing brace of a ${identifier} that starts at i,
\* 0 when none starts there
MatchAt(s, i) ==
    IF i + 3 <= Len(s) /\ s[i] = "$" /\ s[i + 1] = "{" /\ s[i + 2] \in IdStart
    THEN LET j == IdEnd(s, i + 3)
         IN IF j <= Len(s) /\ s[j] = "}" THEN j ELSE 0
    ELSE 0

\* _VAR_PATTERN.sub(repl, s) from position i on
RECURSIVE Substitute(_, _, _)
Substitute(s, i, c) ==
    IF i > Len(s) THEN Ok(<<>>)
    ELSE LET j == MatchAt(s, i)
         IN IF j = 0
            THEN LET rest == Substitute(s, i + 1, c)
                 IN IF rest.ok THEN Ok(<<s[i]>> \o rest.val) ELSE rest
            ELSE LET key == SubSeq(s, i + 2, j - 1)
                 IN IF key \notin DOMAIN c
                    THEN Raise(Err("Unknown variable in template", 0, 0, key))
                    ELSE LET rest == Substitute(s, j + 1, c)
                         IN IF rest.ok THEN Ok(c[key] \o rest.val) ELSE rest

\* interpolate as a plausible bug would write it: the result is substituted
\* again
InterpolateRescans(template, c) ==
    LET once == Substitute(Unquote(template), 1, c)
    IN IF once.ok THEN Substitute(once.val, 1, c) ELSE once

interpolate(template, c) == Substitute(Unquote(template), 1, c)

(***************************************************************************)
(* The parsed tree: steps, scenarios, tests.                               *)
(***************************************************************************)
Request(method, path) ==
    [t |-> "Request", method |-> method, path |-> Quoted(path),
     code |-> 0, kind |-> "", size |-> 0, value |-> NoneVor]

ExpectStatus(code) ==
    [t |-> "ExpectStatus", method |-> "", path |-> <<>>,
     code |-> code, kind |-> "", size |-> 0, value |-> NoneVor]

\* check: a JsonCheck, its kind with the value (equals) or the size (hasSize)
ExpectJson(kind, value, size) ==
    [t |-> "ExpectJson", method |-> "", path |-> <<>>,
     code |-> 0, kind |-> kind, size |-> size, value |-> value]

\* name: the literal of the source text
Scenario(name, steps) == [name |-> Quoted(<<name>>), steps |-> steps]

ScnStatus ==
    Scenario("a", <<Request("GET", <<"/", "a">>), ExpectStatus(200)>>)
ScnJson ==
    Scenario("b", <<Request("GET", <<"/", "b">>), ExpectJson("hasSize", NoneVor, 2)>>)
ScnTwoRequests ==
    Scenario("c", <<Request("GET", <<"/", "c">>), ExpectStatus(200),
                    Request("GET", <<"/", "$", "{", "q", "}">>), ExpectStatus(200)>>)
ScnExpectFirst ==
    Scenario("d", <<ExpectStatus(200), Request("GET", <<"/", "d">>)>>)
ScnUnknownVar ==
    Scenario("e", <<Request("GET", <<"/", "$", "{", "z", "}">>)>>)

\* The scenario lists tried.  A test has one or more scenarios.
Tests ==
    { <<ScnStatus>>,
      <<ScnStatus, ScnJson>>,
      <<ScnTwoRequests>>,
      <<ScnExpectFirst, ScnStatus>>,
      <<ScnStatus, ScnExpectFirst>>,
      <<ScnJson, ScnUnknownVar>> }

\* the context of the load runs: one variable, and the token of a preflight
\* when there was one
BaseContext == (<<"q">> :> <<"p">>)
AuthTokenKey == <<"a", "u", "t", "h", "T", "o", "k", "e", "n">>
Contexts == {BaseContext, BaseContext @@ (AuthTokenKey :> <<"T", "1">>)}

(***************************************************************************)
(* HTTP responses.  A body is abstracted to what the JSONPath of the       *)
(* ExpectJson steps selects in it: the type of the first match, its length *)
(* (its value, for a number) and its text (for a string).                  *)
(***************************************************************************)
Body(t, n, s) == [t |-> t, n |-> n, s |-> s]

Response(status_code, body) == [status_code |-> status_code, body |-> body]

\* last_response = None
NoResponse == Response(-1, Body("none", 0, <<>>))

Responses ==
    { Response(200, Body("list", 2, <<>>)),
      Response(200, Body("list", 3, <<>>)),
      Response(500, Body("list", 2, <<>>)),
      Response(200, Body("undecodable", 0, <<>>)) }

\* client.request raises instead of returning a response
TransportError == Response(0, Body("exception", 0, <<>>))

Outcomes == Responses \cup {TransportError}

(***************************************************************************)
(* runtime/metrics.py: the records of the MetricsCollector.                *)
(* vu and iter are history fields, not fields of RequestRecord: the        *)
(* virtual user and the scenario iteration whose Request step appended the *)
(* record.                                                                 *)
(***************************************************************************)
RequestRecord(scenario, method, path, status_code, success, error, u, iter) ==
    [scenario |-> scenario, method |-> method, path |-> path,
     status_code |-> status_code, success |-> success, error |-> error,
     vu |-> u, iter |-> iter]

\* MetricsCollector.record as a plausible bug would write it: the record is
\* not kept
RecordDropped(recs, r) == recs

\* MetricsCollector.record
record(recs, r) == Append(recs, r)

\* failed_requests as a plausible bug would write it: every record counted
FailedCountsAll(recs) == Len(recs)

\* MetricsCollector.summary: failed = total - successful
failed_requests(recs) ==
    LET total == Len(recs)
        successful == Cardinality({i \in DOMAIN recs : recs[i].success})
    IN total - successful

\* _percentile as a plausible bug would write it: k = p / 100 * len
PercentileOverLength(sorted_values, p) ==
    LET n == Len(sorted_values)
        k == p * n
        floor == k \div 100
    IN IF n = 0 THEN 0
       ELSE IF floor + 1 >= n THEN 100 * sorted_values[n]
       ELSE 100 * sorted_values[floor + 1]
              + (k - 100 * floor) * (sorted_values[floor + 2] - sorted_values[floor + 1])

\* _percentile as a plausible bug would write it: the interpolation starts
\* from sorted_values[ceil]
PercentileFromCeil(sorted_values, p) ==
    LET n == Len(sorted_values)
        k == p * (n - 1)
        floor == k \div 100
    IN IF n = 0 THEN 0
       ELSE IF n = 1 \/ floor + 1 >= n THEN 100 * sorted_values[n]
       ELSE 100 * sorted_values[floor + 2]
              + (k - 100 * floor) * (sorted_values[floor + 2] - sorted_values[floor + 1])

\* _percentile, for 0 <= p.  Values are whole numbers of milliseconds and
\* the result is in hundredths of a millisecond, which holds it exactly for
\* a whole p: k is kept as 100 * k, and floor and ceil are the 0-based
\* indices of the code.
percentile(sorted_values, p) ==
    IF sorted_values = <<>> THEN 0
    ELSE IF Len(sorted_values) = 1 THEN 100 * sorted_values[1]
    ELSE LET k == p * (Len(sorted_values) - 1)
             floor == k \div 100
             ceil == floor + 1
         IN IF ceil >= Len(sorted_values)
            THEN 100 * sorted_values[Len(sorted_values)]
            ELSE LET frac == k - 100 * floor
                 IN 100 * sorted_values[floor + 1]
                      + frac * (sorted_values[ceil + 1] - sorted_values[floor + 1])

(***************************************************************************)
(* runtime/load_executor.py: the step runners.                             *)
(***************************************************************************)
\* the AssertionError of _run_expect_status_step, NoError when it passes
run_expect_status_step(last_response, step) ==
    IF last_response.status_code # step.code
    THEN Err("Expected status", step.code, last_response.status_code, <<>>)
    ELSE NoError

\* isinstance(value, list), isinstance(value, (list, dict, str)), not value
IsList(b) == b.t = "list"
IsSized(b) == b.t \in {"list", "dict", "str"}
IsFalsy(b) == b.t = "null" \/ (b.t \in {"list", "dict", "str", "int"} /\ b.n = 0)

\* What _run_expect_json_step raises: [exc |-> "none"] when the check
\* passes, "AssertionError" with its message, or another exception
\* (json() on an undecodable body, an unresolved reference).
Passes == [exc |-> "none", err |-> NoError]
AssertionError(err) == [exc |-> "AssertionError", err |-> err]
OtherError(err) == [exc |-> "Exception", err |-> err]

NoJsonMatch == AssertionError(Err("JSONPath did not match anything", 0, 0, <<>>))

run_expect_json_step(last_response, step, c) ==
    LET b == last_response.body
        expected == resolve_value_or_ref(step.value, c)
    IN IF b.t = "undecodable"
       THEN OtherError(Err("JSONDecodeError", 0, 0, <<>>))
       ELSE CASE step.kind = "isArray" ->
                   IF b.t = "nomatch" THEN NoJsonMatch
                   ELSE IF ~IsList(b)
                   THEN AssertionError(Err("Expected JSON path to be array", 0, 0, <<b.t>>))
                   ELSE Passes
              [] step.kind = "notEmpty" ->
                   IF b.t = "nomatch" THEN NoJsonMatch
                   ELSE IF IsFalsy(b)
                   THEN AssertionError(Err("Expected JSON path to be not empty", 0, b.n, b.s))
                   ELSE Passes
              [] step.kind = "equals" ->
                   IF ~expected.ok THEN OtherError(expected.err)
                   ELSE IF b.t = "nomatch" THEN NoJsonMatch
                   ELSE IF ~(b.t = "str" /\ b.s = expected.val)
                   THEN AssertionError(Err("JSON value mismatch", 0, b.n, expected.val))
                   ELSE Passes
              [] step.kind = "hasSize" ->
                   IF b.t = "nomatch" THEN NoJsonMatch
                   ELSE IF ~IsSized(b)
                   THEN AssertionError(Err("Expected JSON path to be sized", 0, 0, <<b.t>>))
                   ELSE IF b.n # step.size
                   THEN AssertionError(Err("JSON size mismatch", step.size, b.n, <<>>))
                   ELSE Passes
              [] OTHER -> OtherError(Err("Unsupported JsonCheckKind", 0, 0, <<step.kind>>))

\* _mark_last_record_failed as a plausible bug would write it: the first
\* record instead of the last
MarkFirstRecordFailed(recs, error) ==
    IF recs # <<>>
    THEN [recs EXCEPT ![1].success = FALSE, ![1].error = error]
    ELSE recs

\* _mark_last_record_failed as another plausible bug would write it: the
\* failure is recorded as a record of its own
MarkAppendsFailedRecord(recs, error) ==
    IF recs # <<>>
    THEN Append(recs, [recs[Len(recs)] EXCEPT !.success = FALSE, !.error = error])
    ELSE recs

\* _mark_last_record_failed
mark_last_record_failed(recs, error) ==
    IF recs # <<>>
    THEN [recs EXCEPT ![Len(recs)].success = FALSE, ![Len(recs)].error = error]
    ELSE recs

(***************************************************************************)
(* The state of a run of run_load_test_async.                              *)
(***************************************************************************)
VARIABLES
    profile,      \* the load block of the test, or its absence
    scenarios,    \* test.scenarios
    ctx,          \* the context handed to the run
    orch,         \* the orchestrator: where it is, its locals, its timer
    now,          \* the clock (time.monotonic), in ticks
    stop_event,   \* asyncio.Event
    client,       \* the httpx.AsyncClient: its state and default header
    start_time,   \* MetricsCollector._start_time
    end_time,     \* MetricsCollector._end_time
    records,      \* MetricsCollector._records
    vu,           \* the virtual-user tasks, by user_id
    last_mark,    \* history: the last call of _mark_last_record_failed, the
                  \* number of calls so far (n) and what success was in the
                  \* records it changed (was)
    stop_time,    \* history: the clock when stop_event was set
    run,          \* a run of run_test (runtime/runner.py)
    call          \* a call of a function of runtime/context.py, interpolate.py,
                  \* metrics.py or load_result.py

vars ==
    <<profile, scenarios, ctx, orch, now, stop_event, client, start_time,
      end_time, records, vu, last_mark, stop_time, run, call>>

\* user_id ranges over range(num_users)
UserIds == 0 .. (MaxUsers - 1)

(***************************************************************************)
(* The arguments of run_load_test_async: the defaults of its signature (a  *)
(* test without a load block), or the users, ramp-up and duration of a     *)
(* load block.                                                             *)
(***************************************************************************)
NoProfile == [given |-> FALSE, users |-> 0, ramp_up |-> 0, duration |-> 0]
Profile(users, ramp_up, duration) ==
    [given |-> TRUE, users |-> users, ramp_up |-> ramp_up, duration |-> duration]

Profiles ==
    {NoProfile} \cup
    {Profile(n, r, d) : n \in -1 .. MaxUsers, r \in 0 .. MaxSeconds, d \in 0 .. MaxSeconds}

\* num_users, ramp_up_seconds and duration_seconds, the last two in ticks
num_users == IF profile.given THEN profile.users ELSE 1
ramp_up_arg == IF profile.given THEN Ticks(profile.ramp_up) ELSE 0
duration_seconds == IF profile.given THEN Ticks(profile.duration) ELSE 0

\* single_pass as a plausible bug would compute it: from the user count
SinglePassByUsers(users, duration) == users <= 1

\* single_pass = duration_seconds <= 0
SinglePass(users, duration) == duration <= 0

\* the clamp of the ramp-up as a plausible bug would write it: left out
RampUpNotClamped(sp, ramp_up, duration) == ramp_up

\* "Ramp-up cannot exceed total duration"
ClampRampUp(sp, ramp_up, duration) ==
    IF ~sp /\ ramp_up > duration THEN duration ELSE ramp_up

DelayBetweenUsers(sp, ramp_up, users) ==
    IF ramp_up > 0 /\ ~sp THEN ramp_up \div users ELSE 0

\* elapsed_seconds as a plausible bug would write it: no look at _start_time
ElapsedWithoutStart(st, en, t) == (IF en > 0 THEN en ELSE t) - st

\* MetricsCollector.elapsed_seconds of a collector with _start_time st and
\* _end_time en, read when the clock shows t
elapsed_seconds(st, en, t) ==
    IF st = 0 THEN 0
    ELSE (IF en > 0 THEN en ELSE t) - st

\* MetricsCollector.summary of the records recs of a collector with
\* _start_time st and _end_time en, read when the clock shows t, with
\* _build_scenario_summary and _compute_latency_stats.  The minimum and the
\* maximum are milliseconds, the percentiles are hundredths of a millisecond,
\* and a quotient (the mean, the error rate, the requests per second) is the
\* pair of its numerator and its denominator.
summary(recs, st, en, t) ==
    LET duration == elapsed_seconds(st, en, t)
        RECURSIVE insert(_, _), sorted(_), group(_, _)
        insert(l, x) ==
            IF l = <<>> THEN <<x>>
            ELSE IF x < Head(l) THEN <<x>> \o l
            ELSE <<Head(l)>> \o insert(Tail(l), x)
        sorted(l) ==
            IF l = <<>> THEN <<>> ELSE insert(sorted(Tail(l)), Head(l))
        sum(l) == LET RECURSIVE s(_)
                      s(i) == IF i = 0 THEN 0 ELSE l[i] + s(i - 1)
                  IN s(Len(l))
        compute_latency_stats(latencies) ==
            IF latencies = <<>>
            THEN [latency_min_ms |-> 0, latency_max_ms |-> 0,
                  latency_avg_ms |-> [num |-> 0, den |-> 1],
                  latency_p50_ms |-> 0, latency_p95_ms |-> 0,
                  latency_p99_ms |-> 0]
            ELSE LET sorted_lat == sorted(latencies)
                 IN [latency_min_ms |-> sorted_lat[1],
                     latency_max_ms |-> sorted_lat[Len(sorted_lat)],
                     latency_avg_ms |-> [num |-> sum(latencies),
                                         den |-> Len(latencies)],
                     latency_p50_ms |-> percentile(sorted_lat, 50),
                     latency_p95_ms |-> percentile(sorted_lat, 95),
                     latency_p99_ms |-> percentile(sorted_lat, 99)]
        counts(rs) ==
            LET total == Len(rs)
                successful == Cardinality({i \in DOMAIN rs : rs[i].success})
                failed == failed_requests(rs)
                latencies == [i \in DOMAIN rs |-> rs[i].latency_ms]
            IN [total_requests |-> total,
                successful_requests |-> successful,
                failed_requests |-> failed,
                error_rate |-> IF total > 0
                               THEN [num |-> failed * 100, den |-> total]
                               ELSE [num |-> 0, den |-> 1],
                requests_per_sec |-> IF duration > 0
                                     THEN [num |-> total, den |-> duration]
                                     ELSE [num |-> 0, den |-> 1]]
               @@ compute_latency_stats(latencies)
        \* scenarios_map.setdefault(r.scenario, []).append(r): the names in
        \* the order of their first record
        group(names, i) ==
            IF i > Len(recs) THEN names
            ELSE IF \E j \in DOMAIN names : names[j] = recs[i].scenario
                 THEN group(names, i + 1)
                 ELSE group(Append(names, recs[i].scenario), i + 1)
        scenarios_map == group(<<>>, 1)
        build_scenario_summary(name) ==
            [name |-> name]
              @@ counts(SelectSeq(recs, LAMBDA r : r.scenario = name))
    IN counts(recs)
         @@ [duration_seconds |-> duration,
             scenarios |-> [i \in DOMAIN scenarios_map |->
                              build_scenario_summary(scenarios_map[i])]]

\* LoadTestResult.success as a plausible bug would write it: the metrics alone
SuccessIgnoresAuth(auth_success, s) == s.error_rate.num = 0

\* LoadTestResult.success of a result with the auth outcome auth_success
\* (None, or given with its value) and the summary s
LoadTestResult_success(auth_success, s) ==
    IF auth_success.given /\ auth_success.value = FALSE THEN FALSE
    ELSE s.error_rate.num = 0

\* _render_result_line as a plausible bug would write it: the auth outcome is
\* not looked at
ResultLineIgnoresAuth(auth_success, s) ==
    IF s.failed_requests = 0 THEN "PASS" ELSE "FAIL"

\* LoadTestResult._render_result_line: the word of the result line of the
\* report
render_result_line(auth_success, s) ==
    IF s.failed_requests = 0 /\ ~(auth_success.given /\ auth_success.value = FALSE)
    THEN "PASS"
    ELSE "FAIL"

(***************************************************************************)
(* A virtual-user task.                                                    *)
(*   pc       none (not spawned), created (spawned, not yet run), http     *)
(*            (awaiting client.request), sleep0 (awaiting                  *)
(*            asyncio.sleep(0)), done (returned), failed (ended by an      *)
(*            exception), cancelled; while, for, step and return are the   *)
(*            places it passes through without suspending                  *)
(*   sc, st   the scenario and the step it is at                           *)
(*   last     last_response of run_scenario_async                          *)
(*   req      the request it awaits, with the Authorization header it      *)
(*            carries; after_stop is history: stop_event was set when it   *)
(*            was issued                                                   *)
(*   exc      the exception that ended it                                  *)
(*   iter, handle, late  history: the number of its scenario iteration,    *)
(*            the index of the record its last Request step appended in    *)
(*            this iteration, and whether stop_event was set when the      *)
(*            iteration began                                              *)
(*   problems history: its iterations that an exception ended, with the    *)
(*            kind of the exception: transport (except Exception of the    *)
(*            Request step), assertion (except AssertionError of an expect *)
(*            step), no response yet (the RuntimeError of an expect step   *)
(*            with last_response None)                                     *)
(***************************************************************************)
NoRequest == [method |-> "", path |-> <<>>, authorization |-> <<>>, after_stop |-> FALSE]

NoTask ==
    [pc |-> "none", sc |-> 0, st |-> 0, last |-> NoResponse, req |-> NoRequest,
     exc |-> NoError, iter |-> 0, handle |-> 0, late |-> FALSE, problems |-> {}]

NoMark == [by |-> -1, iter |-> 0, handle |-> 0, changed |-> {}, before |-> 0,
           after |-> 0, error |-> NoError, n |-> 0, was |-> {}]

Pending(v) == v.pc \in {"created", "http", "sleep0"}
Finished(v) == v.pc \in {"done", "failed", "cancelled"}

\* the indices at which two record lists differ
Changed(old, new) ==
    {i \in 1 .. (IF Len(old) < Len(new) THEN Len(old) ELSE Len(new)) : old[i] # new[i]}

\* scenario.name.strip().strip('"')
ScenarioName(scenario) == Unquote(scenario.name)

\* the check of stop_event inside the for loop, as a plausible bug would
\* write it: left out
StopNotCheckedInFor == FALSE

\* "if stop_event.is_set(): return" inside the for loop of _virtual_user
StopCheckedInFor == stop_event

\* history: the iteration task v is in ends with an exception of this kind
Problem(v, kind) ==
    [v EXCEPT !.problems = @ \cup {[iter |-> v.iter, kind |-> kind]}]

\* "except AssertionError" as a plausible bug would write it: the return is
\* left out, and the for loop goes on with the next step
AssertionErrorSwallowed(v) == [v EXCEPT !.pc = "step", !.st = @ + 1]

\* "except AssertionError as exc: _mark_last_record_failed(...); return"
AssertionErrorReturns(v) == [v EXCEPT !.pc = "return"]

\* the entry of run_scenario_async as a plausible bug would write it:
\* last_response outlives the iteration
EnterScenarioKeepsResponse(v) ==
    [v EXCEPT !.pc = "step", !.st = 1, !.iter = @ + 1, !.handle = 0,
              !.late = stop_event]

\* an exception that no except branch catches, as a plausible bug would
\* treat it: swallowed, and the task goes on to the asyncio.sleep(0) after
\* the scenario
ExceptionSwallowed(v, err) == [v EXCEPT !.pc = "sleep0"]

\* an exception that neither run_scenario_async nor _virtual_user catches:
\* it ends the task
Failed(v, err) == [v EXCEPT !.pc = "failed", !.exc = err]

\* run_scenario_async is entered: last_response = None
EnterScenario(v) ==
    [v EXCEPT !.pc = "step", !.st = 1, !.last = NoResponse,
              !.iter = @ + 1, !.handle = 0, !.late = stop_event]

(***************************************************************************)
(* _virtual_user and run_scenario_async: the run of task u from where it   *)
(* is to its next await (http, sleep0) or to its end (done, failed).       *)
(* m holds the task (v), the records (recs) and the history of the last    *)
(* _mark_last_record_failed (mark).                                        *)
(***************************************************************************)
RECURSIVE RunVU(_, _)
RunVU(u, m) ==
    LET v == m.v
        scenario == scenarios[v.sc]
        step == scenario.steps[v.st]
        Fail(err) == [m EXCEPT !.v = Failed(v, err)]
        \* the RuntimeError of an expect step with last_response None
        Misuse(err) ==
            [m EXCEPT !.v = Problem(Failed(v, err), "no response yet")]
        \* an AssertionError of an expect step: mark and return
        Mark(err) ==
            LET marked == mark_last_record_failed(m.recs, err)
            IN RunVU(u, [m EXCEPT
                 !.recs = marked,
                 !.mark = [by |-> u, iter |-> v.iter, handle |-> v.handle,
                           changed |-> Changed(m.recs, marked),
                           before |-> Len(m.recs), after |-> Len(marked),
                           error |-> err, n |-> m.mark.n + 1,
                           was |-> {m.recs[i].success :
                                      i \in Changed(m.recs, marked)}],
                 !.v = Problem(AssertionErrorReturns(v), "assertion")])
        Continue == RunVU(u, [m EXCEPT !.v.st = @ + 1])
    IN CASE v.pc = "while" ->
              IF stop_event THEN [m EXCEPT !.v.pc = "done"]
              ELSE RunVU(u, [m EXCEPT !.v.pc = "for", !.v.sc = 1])
         [] v.pc = "for" ->
              IF v.sc > Len(scenarios)
              THEN IF orch.single_pass THEN [m EXCEPT !.v.pc = "done"]
                   ELSE RunVU(u, [m EXCEPT !.v.pc = "while"])
              ELSE IF ~orch.single_pass /\ StopCheckedInFor
              THEN [m EXCEPT !.v.pc = "done"]
              ELSE RunVU(u, [m EXCEPT !.v = EnterScenario(v)])
         [] v.pc = "step" ->
              IF v.st > Len(scenario.steps)
              THEN RunVU(u, [m EXCEPT !.v.pc = "return"])
              ELSE CASE step.t = "Request" ->
                          LET path == interpolate(step.path, ctx)
                          IN IF ~path.ok THEN Fail(path.err)
                             ELSE [m EXCEPT
                                     !.v.pc = "http",
                                     !.v.req = [method |-> step.method,
                                                path |-> path.val,
                                                authorization |-> client.authorization,
                                                after_stop |-> stop_event]]
                     [] step.t = "ExpectStatus" ->
                          IF v.last = NoResponse
                          THEN Misuse(Err("expect status used before any request", 0, 0, <<>>))
                          ELSE LET err == run_expect_status_step(v.last, step)
                               IN IF err # NoError THEN Mark(err) ELSE Continue
                     [] step.t = "ExpectJson" ->
                          IF v.last = NoResponse
                          THEN Misuse(Err("expect json used before any request", 0, 0, <<>>))
                          ELSE LET res == run_expect_json_step(v.last, step, ctx)
                               IN CASE res.exc = "none" -> Continue
                                    [] res.exc = "AssertionError" -> Mark(res.err)
                                    [] OTHER -> Fail(res.err)
                     [] OTHER -> Fail(Err("Unsupported step type", 0, 0, <<step.t>>))
         [] v.pc = "return" ->
              IF orch.single_pass
              THEN RunVU(u, [m EXCEPT !.v.pc = "for", !.v.sc = @ + 1])
              ELSE [m EXCEPT !.v.pc = "sleep0"]

\* client.request returned or raised: the rest of the Request step
AfterRequest(u, m, outcome) ==
    LET v == m.v
        name == ScenarioName(scenarios[v.sc])
    IN IF outcome = TransportError
       THEN LET recs == record(m.recs,
                          RequestRecord(name, v.req.method, v.req.path, 0, FALSE,
                                        Err("transport", 0, 0, <<>>), u, v.iter))
            IN [m EXCEPT !.recs = recs,
                         !.v = Problem([v EXCEPT !.handle = Len(recs),
                                                 !.req = NoRequest,
                                                 !.pc = "return"], "transport")]
       ELSE LET recs == record(m.recs,
                          RequestRecord(name, v.req.method, v.req.path,
                                        outcome.status_code, TRUE, NoError, u, v.iter))
            IN [m EXCEPT !.recs = recs, !.v.handle = Len(recs), !.v.last = outcome,
                         !.v.req = NoRequest, !.v.st = @ + 1, !.v.pc = "step"]

Machine(u) == [v |-> vu[u], recs |-> records, mark |-> last_mark]

\* the requests issued so far, were task u to end its run as m
Issued(u, m) ==
    Len(m.recs) + Cardinality({w \in UserIds : (IF w = u THEN m.v ELSE vu[w]).pc = "http"})

\* the event loop is running the tasks of the run
Running == orch.pc \in {"ramp_sleep", "duration_sleep", "wait", "gather"}

\* the run of task u ends as m
Suspend(u, m) ==
    /\ Issued(u, m) <= MaxRequests
    /\ vu' = [vu EXCEPT ![u] = m.v]
    /\ records' = m.recs
    /\ last_mark' = m.mark
    /\ UNCHANGED <<call, run, profile, scenarios, ctx, orch, now, stop_event, client,
                   start_time, end_time, stop_time>>

\* a spawned task runs for the first time
VUBegin(u) ==
    /\ Running
    /\ vu[u].pc = "created"
    /\ Suspend(u, RunVU(u, [Machine(u) EXCEPT
                              !.v.pc = IF orch.single_pass THEN "for" ELSE "while",
                              !.v.sc = 1]))

\* the awaited client.request of task u returns or raises
HttpReturn(u, outcome) ==
    /\ Running
    /\ vu[u].pc = "http"
    /\ Suspend(u, RunVU(u, AfterRequest(u, Machine(u), outcome)))

\* the awaited asyncio.sleep(0) of task u returns
Sleep0Return(u) ==
    /\ Running
    /\ vu[u].pc = "sleep0"
    /\ Suspend(u, RunVU(u, [Machine(u) EXCEPT !.v.pc = "for", !.v.sc = @ + 1]))

(***************************************************************************)
(* run_load_test_async, the orchestrator.                                  *)
(*   pc   init, ramp_sleep (asyncio.sleep(delay_between_users)),           *)
(*        duration_sleep (asyncio.sleep(remaining)), wait (asyncio.wait    *)
(*        with the grace timeout), gather (single pass), returned, raised  *)
(*   i    the number of tasks created                                      *)
(*   wake the clock at which its timer is due                              *)
(***************************************************************************)
Created == [NoTask EXCEPT !.pc = "created"]

Bearer(token) == <<"B", "e", "a", "r", "e", "r", " ">> \o token

\* remaining, as a plausible bug would compute it: the time spent ramping
\* up is not taken off
RemainingIgnoringElapsed(duration, elapsed_so_far) == duration

\* remaining = duration_seconds - elapsed_so_far
Remaining(duration, elapsed_so_far) == duration - elapsed_so_far

\* after the spawn loop, at clock t
AfterSpawn(t, st, o) ==
    IF o.single_pass
    THEN /\ orch' = [o EXCEPT !.pc = "gather"]
         /\ UNCHANGED <<stop_event, stop_time>>
    ELSE LET remaining == Remaining(duration_seconds, elapsed_seconds(st, end_time, t))
         IN IF remaining > 0
            THEN /\ orch' = [o EXCEPT !.pc = "duration_sleep", !.wake = t + remaining]
                 /\ UNCHANGED <<stop_event, stop_time>>
            ELSE /\ stop_event' = TRUE
                 /\ stop_time' = t
                 /\ orch' = [o EXCEPT !.pc = "wait", !.wake = t + Ticks(GRACE_SECONDS)]

\* the spawn loop from user i0 on, at clock t, up to its next sleep
SpawnLoop(i0, t, st, o) ==
    IF o.delay_between_users > 0 /\ i0 < num_users - 1
    THEN /\ vu' = [vu EXCEPT ![i0] = Created]
         /\ orch' = [o EXCEPT !.pc = "ramp_sleep", !.i = i0 + 1,
                              !.wake = t + o.delay_between_users]
         /\ UNCHANGED <<stop_event, stop_time>>
    ELSE /\ vu' = [w \in UserIds |->
                     IF w >= i0 /\ w < num_users THEN Created ELSE vu[w]]
         /\ AfterSpawn(t, st, [o EXCEPT !.i = num_users])

\* the test of num_users as a plausible bug would write it: an early return
\* with nothing raised
RejectedSilently(o) == [o EXCEPT !.pc = "returned"]

\* raise RuntimeError("load.users must be > 0")
Rejected(o) ==
    [o EXCEPT !.pc = "raised", !.exc = Err("load.users must be > 0", 0, 0, <<>>)]

\* the call of run_load_test_async, up to its first await
Start ==
    /\ orch.pc = "init"
    /\ IF num_users <= 0
       THEN /\ orch' = Rejected(orch)
            /\ UNCHANGED <<vu, stop_event, stop_time, client, start_time>>
       ELSE LET sp == SinglePass(num_users, duration_seconds)
                ramp == ClampRampUp(sp, ramp_up_arg, duration_seconds)
                delay == DelayBetweenUsers(sp, ramp, num_users)
            IN /\ client' = [state |-> "open",
                             authorization |->
                                 IF AuthTokenKey \in DOMAIN ctx
                                 THEN Bearer(ctx[AuthTokenKey]) ELSE <<>>]
               /\ start_time' = now
               /\ SpawnLoop(0, now, now,
                            [orch EXCEPT !.single_pass = sp,
                                         !.ramp_up_seconds = ramp,
                                         !.delay_between_users = delay])
    /\ UNCHANGED <<call, run, profile, scenarios, ctx, now, end_time, records, last_mark>>

\* asyncio.sleep(delay_between_users) returns: the spawn loop goes on
RampWake ==
    /\ orch.pc = "ramp_sleep"
    /\ \E late \in 0 .. MaxLate :
         /\ now' = orch.wake + late
         /\ SpawnLoop(orch.i, now', start_time, orch)
    /\ UNCHANGED <<call, run, profile, scenarios, ctx, client, start_time, end_time,
                   records, last_mark>>

\* "finally" and "return metrics" at clock t
Finish(t, o) ==
    /\ end_time' = t
    /\ client' = [client EXCEPT !.state = "closed"]
    /\ orch' = [o EXCEPT !.pc = "returned"]

\* asyncio.sleep(remaining) returns: stop_event.set(), then asyncio.wait
DurationWake ==
    /\ orch.pc = "duration_sleep"
    /\ \E late \in 0 .. MaxLate :
         /\ now' = orch.wake + late
         /\ stop_event' = TRUE
         /\ stop_time' = now'
         /\ orch' = [orch EXCEPT !.pc = "wait", !.wake = now' + Ticks(GRACE_SECONDS)]
    /\ UNCHANGED <<call, run, profile, scenarios, ctx, client, start_time, end_time,
                   records, vu, last_mark>>

\* asyncio.wait returns with every task done: nothing is pending
WaitDone ==
    /\ orch.pc = "wait"
    /\ \A u \in UserIds : ~Pending(vu[u])
    /\ \E late \in 0 .. MaxLate :
         /\ now' = now + late
         /\ Finish(now', orch)
    /\ UNCHANGED <<call, run, profile, scenarios, ctx, stop_event, start_time, records,
                   vu, last_mark, stop_time>>

\* t.cancel() as a plausible bug would leave it: the task is not cancelled
NotCancelled(v) == v

\* the CancelledError as a plausible bug would treat it: caught by the
\* "except Exception" of the Request step like a transport failure
CancelledAsTransportFailure(v) ==
    Problem([v EXCEPT !.pc = "cancelled", !.req = NoRequest], "transport")

\* t.cancel(), and the CancelledError raised in the task at its await
Cancelled(v) == [v EXCEPT !.pc = "cancelled", !.req = NoRequest]

\* asyncio.wait times out: the pending tasks are cancelled and gathered
WaitTimeout ==
    /\ orch.pc = "wait"
    /\ \E u \in UserIds : Pending(vu[u])
    /\ \E late \in 0 .. MaxLate :
         /\ now' = orch.wake + late
         /\ Finish(now', orch)
    /\ vu' = [u \in UserIds |->
                IF Pending(vu[u]) THEN Cancelled(vu[u]) ELSE vu[u]]
    /\ UNCHANGED <<call, run, profile, scenarios, ctx, stop_event, start_time, records,
                   last_mark, stop_time>>

\* single pass: asyncio.gather returns when every task has ended
GatherDone ==
    /\ orch.pc = "gather"
    /\ \A u \in UserIds : ~Pending(vu[u])
    /\ \E late \in 0 .. MaxLate :
         /\ now' = now + late
         /\ Finish(now', orch)
    /\ UNCHANGED <<call, run, profile, scenarios, ctx, stop_event, start_time, records,
                   vu, last_mark, stop_time>>

(***************************************************************************)
(* runtime/runner.py: run_test, the synchronous runner.                    *)
(*                                                                         *)
(* The test block: environment and variables are lists of entries or None  *)
(* (given FALSE), target is a Target or None, auth an AuthLogin or None.   *)
(* A dict is a function; a later entry of the same name replaces an        *)
(* earlier one.                                                            *)
(***************************************************************************)
NoDict == <<>>
Put(d, k, v) == (k :> v) @@ d

\* {**a, **b} as a plausible bug would write it: b is left out
MergeIgnoresSecond(a, b) == a

\* {**a, **b}
Merge(a, b) == b @@ a

None == [given |-> FALSE]

\* EnvVar: name = env("KEY"); key is the literal of the source
EnvVar(name, key) == [name |-> name, key |-> Quoted(key)]
Environment(envVars) == [given |-> TRUE, envVars |-> envVars]

VarEntry(name, value) == [name |-> name, value |-> value]
VariablesBlock(entries) == [given |-> TRUE, vars |-> entries]

\* Target: value is a literal of the source (empty when the target is a
\* reference), ref the name referred to
Target(value, ref) == [given |-> TRUE, value |-> value, ref |-> ref]

BodyField(name, value) == [name |-> name, value |-> value]
AuthLogin(endpoint, method, fields, format) ==
    [given |-> TRUE, endpoint |-> endpoint, method |-> method,
     body |-> [given |-> TRUE, fields |-> fields], format |-> Quoted(format)]

\* resolve_env as a plausible bug would write it: a binding whose key is not
\* in the environment is skipped
RECURSIVE ResolveEnvSkipping(_, _, _, _)
ResolveEnvSkipping(envVars, i, resolved, environ) ==
    IF i > Len(envVars) THEN Ok(resolved)
    ELSE LET key == Strip(envVars[i].key, {"\""})
         IN IF key \notin DOMAIN environ
            THEN ResolveEnvSkipping(envVars, i + 1, resolved, environ)
            ELSE ResolveEnvSkipping(envVars, i + 1,
                                    Put(resolved, envVars[i].name, environ[key]), environ)

\* resolve_env from entry i on; environ is os.environ
RECURSIVE ResolveEnvFrom(_, _, _, _)
ResolveEnvFrom(envVars, i, resolved, environ) ==
    IF i > Len(envVars) THEN Ok(resolved)
    ELSE LET key == Strip(envVars[i].key, {"\""})
         IN IF key \notin DOMAIN environ
            THEN Raise(Err("Missing environment variable", 0, 0, key))
            ELSE ResolveEnvFrom(envVars, i + 1,
                                Put(resolved, envVars[i].name, environ[key]), environ)

resolve_env(environment, environ) ==
    IF ~environment.given THEN Ok(NoDict)
    ELSE ResolveEnvFrom(environment.envVars, 1, NoDict, environ)

\* resolve_variables from entry i on
RECURSIVE ResolveVariablesFrom(_, _, _, _)
ResolveVariablesFrom(entries, i, resolved, env_map) ==
    IF i > Len(entries) THEN Ok(resolved)
    ELSE LET ctx_so_far == Merge(env_map, resolved)
             value == resolve_value_or_ref(entries[i].value, ctx_so_far)
         IN IF ~value.ok THEN value
            ELSE ResolveVariablesFrom(entries, i + 1,
                                      Put(resolved, entries[i].name, value.val), env_map)

resolve_variables(variables, env_map) ==
    IF ~variables.given THEN Ok(NoDict)
    ELSE ResolveVariablesFrom(variables.vars, 1, NoDict, env_map)

\* build_context as a plausible bug would write it: no test for names bound
\* twice, the variable wins
BuildContextLastWins(env_map, vars_map) == Ok(Merge(env_map, vars_map))

build_context(env_map, vars_map) ==
    LET overlap == DOMAIN env_map \cap DOMAIN vars_map
    IN IF overlap # {}
       THEN Raise(Err("Duplicate names in environment and variables", 0, 0,
                      CHOOSE k \in overlap : TRUE))
       ELSE Ok(Merge(env_map, vars_map))

\* resolve_target: a result whose val is <<>> stands for None as well as
\* for the empty string, which run_test treats alike ("if not base_url")
resolve_target(target, c) ==
    IF ~target.given THEN Ok(<<>>)
    ELSE IF target.value # <<>> THEN Ok(Unquote(target.value))
    ELSE IF target.ref # <<>> THEN resolve_ref(target.ref, c)
    ELSE Ok(<<>>)

(***************************************************************************)
(* runtime/auth.py: run_auth_login.                                        *)
(***************************************************************************)
\* a request handed to the httpx.Client, with the Authorization header of
\* the client when it was sent; kind tells the login from a scenario request
HttpRequest(kind, method, path, authorization) ==
    [kind |-> kind, method |-> method, path |-> path, authorization |-> authorization]

\* the payload of the login from field i on
RECURSIVE PayloadFrom(_, _, _, _)
PayloadFrom(fields, i, payload, c) ==
    IF i > Len(fields) THEN Ok(payload)
    ELSE IF fields[i].value.none
    THEN Raise(Err("auth.login body field missing value", 0, 0, fields[i].name))
    ELSE LET value == resolve_value_or_ref(fields[i].value, c)
         IN IF ~value.ok THEN value
            ELSE PayloadFrom(fields, i + 1, Put(payload, fields[i].name, value.val), c)

\* run_auth_login up to client.request: the request it sends, or the error
\* it raises before sending any
LoginRequest(auth, c, authorization) ==
    IF auth.endpoint.none THEN Raise(Err("auth.login missing endpoint", 0, 0, <<>>))
    ELSE IF ~auth.body.given THEN Raise(Err("auth.login missing body", 0, 0, <<>>))
    ELSE LET endpoint == resolve_value_or_ref(auth.endpoint, c)
             payload == PayloadFrom(auth.body.fields, 1, NoDict, c)
         IN IF ~endpoint.ok THEN endpoint
            ELSE IF ~payload.ok THEN payload
            ELSE Ok(HttpRequest("login", auth.method, endpoint.val, authorization))

\* resp.raise_for_status() passes
IsSuccess(resp) == resp.status_code \in 200 .. 299

\* run_auth_login from the return of client.request on: the token, or the
\* error raised.  The body of the response is abstracted to what the
\* JSONPath of auth.format selects in it.
ExtractToken(auth, outcome) ==
    IF outcome = TransportError THEN Raise(Err("transport", 0, 0, <<>>))
    ELSE IF ~IsSuccess(outcome)
    THEN Raise(Err("HTTPStatusError", 0, outcome.status_code, <<>>))
    ELSE IF outcome.body.t = "undecodable" THEN Raise(Err("JSONDecodeError", 0, 0, <<>>))
    ELSE IF outcome.body.t = "nomatch"
    THEN Raise(Err("auth.login token not found using format", 0, 0, Unquote(auth.format)))
    ELSE IF outcome.body.t # "str" \/ outcome.body.s = <<>>
    THEN Raise(Err("auth.login extracted token is not a non-empty string", 0, 0, <<>>))
    ELSE Ok(outcome.body.s)

\* what the login may bring back
LoginOutcomes ==
    { Response(200, Body("str", 2, <<"T", "2">>)),
      Response(200, Body("str", 0, <<>>)),
      Response(200, Body("int", 5, <<>>)),
      Response(200, Body("nomatch", 0, <<>>)),
      Response(200, Body("undecodable", 0, <<>>)),
      Response(401, Body("str", 2, <<"T", "2">>)),
      TransportError }

(***************************************************************************)
(* The results of run_test.                                                *)
(***************************************************************************)
\* AuthResult, or None (given FALSE)
NoAuthResult == [given |-> FALSE, success |-> FALSE, error |-> NoError]
AuthResult(success, error) == [given |-> TRUE, success |-> success, error |-> error]

ScenarioResult(name, requests, success, error) ==
    [name |-> name, requests |-> requests, success |-> success, error |-> error]

RunResult(scenario_results, auth) == [scenarios |-> scenario_results, auth |-> auth]

RECURSIVE SumRequests(_)
SumRequests(results) ==
    IF results = <<>> THEN 0 ELSE Head(results).requests + SumRequests(Tail(results))

\* RunResult.total_requests as a plausible bug would write it: the login is
\* not counted
TotalRequestsWithoutLogin(result) == SumRequests(result.scenarios)

\* RunResult.total_requests
total_requests(result) ==
    SumRequests(result.scenarios) + (IF result.auth.given THEN 1 ELSE 0)

\* RunResult.failed as a plausible bug would write it: the failed preflight
\* is not counted
FailedScenariosOnly(result) ==
    Cardinality({i \in 1 .. Len(result.scenarios) : ~result.scenarios[i].success})

\* RunResult.failed
failed(result) ==
    Cardinality({i \in 1 .. Len(result.scenarios) : ~result.scenarios[i].success})
    + (IF result.auth.given /\ ~result.auth.success THEN 1 ELSE 0)

\* RunResult.scenario_passed, scenario_failed, total_steps and steps_passed
RunResultSteps(result) ==
    LET scenario_passed ==
            Cardinality({i \in 1 .. Len(result.scenarios) : result.scenarios[i].success})
        scenario_failed ==
            Cardinality({i \in 1 .. Len(result.scenarios) : ~result.scenarios[i].success})
        total_steps == Len(result.scenarios) + (IF result.auth.given THEN 1 ELSE 0)
        steps_passed == total_steps - failed(result)
    IN [scenario_passed |-> scenario_passed, scenario_failed |-> scenario_failed,
        total_steps |-> total_steps, steps_passed |-> steps_passed]

(***************************************************************************)
(* A run of run_test.                                                      *)
(*   pc     none (no run), init, login (run_auth_login awaits the          *)
(*          response of client.request), request (a Request step awaits    *)
(*          its response), returned, raised                                *)
(*   test, environ   the test block and os.environ                         *)
(*   ctx    the context; authorization, the Authorization header of the    *)
(*          client (empty: none)                                           *)
(*   sc, st, last, request_count   the scenario run_test is at (0: none    *)
(*          was started), and the step, last_response and request_count    *)
(*          of run_scenario                                                *)
(*   scenario_results, auth_result, exc   what run_test returns or raises  *)
(*   log, login_response   history: the requests handed to the client, in  *)
(*          order, and what the login brought back                         *)
(***************************************************************************)
NoTest == [environment |-> None, variables |-> None, target |-> None, auth |-> None]

NoRun ==
    [pc |-> "none", test |-> NoTest, environ |-> NoDict, ctx |-> NoDict,
     authorization |-> <<>>, sc |-> 0, st |-> 0, last |-> NoResponse,
     request_count |-> 0, scenario_results |-> <<>>, auth_result |-> NoAuthResult,
     exc |-> NoError, log |-> <<>>, login_response |-> NoResponse]

NewRun(test, environ) == [NoRun EXCEPT !.pc = "init", !.test = test, !.environ = environ]

\* scenario_results.append(result), and the next turn of "for sc in t.scenarios"
NextScenario(r, result) ==
    [r EXCEPT !.scenario_results = Append(@, result), !.sc = @ + 1, !.st = 1,
              !.last = NoResponse, !.request_count = 0]

\* "except Exception as e" around run_scenario: requests stays 0
ScenarioFailed(r, err) ==
    NextScenario(r, ScenarioResult(scenarios[r.sc].name, 0, FALSE, err))

\* The loop over t.scenarios with run_scenario (runtime/executor.py), from
\* where r is to the next client.request or to the return of run_test.
RECURSIVE RunScenarios(_)
RunScenarios(r) ==
    IF r.sc > Len(scenarios) THEN [r EXCEPT !.pc = "returned"]
    ELSE LET scenario == scenarios[r.sc]
             step == scenario.steps[r.st]
             Continue == RunScenarios([r EXCEPT !.st = @ + 1])
             Fail(err) == RunScenarios(ScenarioFailed(r, err))
         IN IF r.st > Len(scenario.steps)
            THEN RunScenarios(NextScenario(r,
                     ScenarioResult(scenario.name, r.request_count, TRUE, NoError)))
            ELSE CASE step.t = "Request" ->
                        LET path == interpolate(step.path, r.ctx)
                        IN IF ~path.ok THEN Fail(path.err)
                           ELSE [r EXCEPT
                                   !.pc = "request",
                                   !.log = Append(@, HttpRequest("scenario", step.method,
                                                                 path.val, r.authorization))]
                   [] step.t = "ExpectStatus" ->
                        IF r.last = NoResponse
                        THEN Fail(Err("expect status used before any request", 0, 0, <<>>))
                        ELSE LET err == run_expect_status_step(r.last, step)
                             IN IF err # NoError THEN Fail(err) ELSE Continue
                   [] step.t = "ExpectJson" ->
                        IF r.last = NoResponse
                        THEN Fail(Err("expect json used before any request", 0, 0, <<>>))
                        ELSE LET res == run_expect_json_step(r.last, step, r.ctx)
                             IN IF res.exc = "none" THEN Continue ELSE Fail(res.err)
                   [] OTHER -> Fail(Err("Unsupported step type", 0, 0, <<step.t>>))

\* "for sc in t.scenarios" is entered
StartScenarios(r) == [r EXCEPT !.sc = 1, !.st = 1, !.last = NoResponse, !.request_count = 0]

\* the failed preflight as a plausible bug would handle it: the failure is
\* recorded and the scenarios run all the same
AuthFailedContinues(r, err) ==
    RunScenarios(StartScenarios([r EXCEPT !.auth_result = AuthResult(FALSE, err)]))

\* the failed preflight as another plausible bug would leave it: the header
\* was set before the failure was noticed
AuthFailedWithHeader(r, err) ==
    [r EXCEPT !.auth_result = AuthResult(FALSE, err), !.scenario_results = <<>>,
              !.pc = "returned", !.authorization = Bearer(<<>>)]

\* "except Exception as e" around the preflight, and "if not auth_success:
\* return RunResult(scenarios=[], auth=auth_result)"
AuthFailed(r, err) ==
    [r EXCEPT !.auth_result = AuthResult(FALSE, err), !.scenario_results = <<>>,
              !.pc = "returned"]

\* the token as a plausible bug would install it: in the context only
AuthorizeContextOnly(r, token) ==
    [r EXCEPT !.ctx = Put(@, AuthTokenKey, token), !.auth_result = AuthResult(TRUE, NoError)]

\* ctx["authToken"] = token; client.headers["Authorization"] = f"Bearer {token}"
Authorize(r, token) ==
    [r EXCEPT !.ctx = Put(@, AuthTokenKey, token), !.authorization = Bearer(token),
              !.auth_result = AuthResult(TRUE, NoError)]

\* an exception of the context resolution as a plausible bug would treat it:
\* caught and reported like a failed preflight
RaisedAsFailedAuth(r, err) == AuthFailed(r, err)

\* an exception leaves run_test
Raised(r, err) == [r EXCEPT !.pc = "raised", !.exc = err]

\* the state of the load run, which run_test leaves alone
loadvars ==
    <<profile, ctx, orch, now, stop_event, client, start_time, end_time,
      records, vu, last_mark, stop_time>>

\* The call of run_test, up to its first client.request: the context is
\* resolved, then the preflight sends the login, or fails before sending
\* it; without an auth block the scenarios start.
RunTest ==
    /\ run.pc = "init"
    /\ LET t == run.test
           env_map == resolve_env(t.environment, run.environ)
           vars_map == resolve_variables(t.variables, env_map.val)
           c == build_context(env_map.val, vars_map.val)
           base_url == resolve_target(t.target, c.val)
           r == [run EXCEPT !.ctx = c.val]
           login == LoginRequest(t.auth, c.val, r.authorization)
       IN run' =
            IF ~env_map.ok THEN Raised(run, env_map.err)
            ELSE IF ~vars_map.ok THEN Raised(run, vars_map.err)
            ELSE IF ~c.ok THEN Raised(run, c.err)
            ELSE IF ~base_url.ok THEN Raised(run, base_url.err)
            ELSE IF base_url.val = <<>> THEN Raised(run, Err("Missing target", 0, 0, <<>>))
            ELSE IF ~t.auth.given THEN RunScenarios(StartScenarios(r))
            ELSE IF ~login.ok THEN AuthFailed(r, login.err)
            ELSE [r EXCEPT !.pc = "login", !.log = Append(@, login.val)]
    /\ UNCHANGED <<call, scenarios, loadvars>>

\* client.request of run_auth_login returns or raises: the rest of the
\* preflight, then the scenarios up to their first client.request
LoginReturn(outcome) ==
    /\ run.pc = "login"
    /\ LET r == [run EXCEPT !.login_response = outcome]
           token == ExtractToken(run.test.auth, outcome)
       IN run' =
            IF ~token.ok THEN AuthFailed(r, token.err)
            ELSE IF AuthTokenKey \in DOMAIN r.ctx
            THEN AuthFailed(r, Err("Reserved name conflict", 0, 0, AuthTokenKey))
            ELSE RunScenarios(StartScenarios(Authorize(r, token.val)))
    /\ UNCHANGED <<call, scenarios, loadvars>>

\* client.request of a Request step returns or raises: the rest of the run
\* up to the next client.request
RequestReturn(outcome) ==
    /\ run.pc = "request"
    /\ run' =
         IF outcome = TransportError
         THEN RunScenarios(ScenarioFailed(run, Err("transport", 0, 0, <<>>)))
         ELSE RunScenarios([run EXCEPT !.last = outcome, !.request_count = @ + 1,
                                       !.st = @ + 1])
    /\ UNCHANGED <<call, scenarios, loadvars>>

(***************************************************************************)
(* The tests and environments tried with run_test.                         *)
(***************************************************************************)
Environs == { (<<"K">> :> <<"h">>), (<<"J">> :> <<"h">>) }

Environments == { None, Environment(<<EnvVar(<<"B">>, <<"K">>)>>) }

VariablesBlocks ==
    { None,
      VariablesBlock(<<VarEntry(<<"q">>, ValueVor(Quoted(<<"p">>)))>>),
      VariablesBlock(<<VarEntry(<<"q">>, RefVor(<<"B">>))>>),
      VariablesBlock(<<VarEntry(<<"B">>, ValueVor(Quoted(<<"p">>)))>>),
      VariablesBlock(<<VarEntry(AuthTokenKey, ValueVor(Quoted(<<"T", "1">>)))>>) }

Targets == { None, Target(Quoted(<<"h">>), <<>>), Target(<<>>, <<"B">>) }

LoginPath == Quoted(<<"/", "l">>)
UserField == BodyField(<<"u">>, ValueVor(Quoted(<<"x">>)))
TokenFormat == <<"$", ".", "t">>

Auths ==
    { None,
      AuthLogin(ValueVor(LoginPath), "POST", <<UserField>>, TokenFormat),
      AuthLogin(RefVor(<<"q">>), "POST", <<UserField>>, TokenFormat),
      AuthLogin(ValueVor(LoginPath), "POST",
                <<UserField, BodyField(<<"w">>, RefVor(<<"q">>))>>, TokenFormat),
      AuthLogin(ValueVor(LoginPath), "POST",
                <<BodyField(<<"w">>, NoneVor), UserField>>, TokenFormat) }

TestBlocks ==
    { [environment |-> e, variables |-> v, target |-> g, auth |-> a] :
        e \in Environments, v \in VariablesBlocks, g \in Targets, a \in Auths }

\* no load run
LoadIdle ==
    /\ orch = [pc |-> "none", i |-> 0, wake |-> 0, single_pass |-> FALSE,
               ramp_up_seconds |-> 0, delay_between_users |-> 0, exc |-> NoError]
    /\ profile = NoProfile
    /\ ctx = BaseContext
    /\ now = 1
    /\ stop_event = FALSE
    /\ client = [state |-> "none", authorization |-> <<>>]
    /\ start_time = 0
    /\ end_time = 0
    /\ records = <<>>
    /\ vu = [u \in UserIds |-> NoTask]
    /\ last_mark = NoMark
    /\ stop_time = 0

InitRun ==
    /\ scenarios \in Tests
    /\ run \in {NewRun(test, environ) : test \in TestBlocks, environ \in Environs}
    /\ LoadIdle
    /\ call = [fn |-> "", done |-> FALSE]

NextRun ==
    \/ RunTest
    \/ \E outcome \in LoginOutcomes : LoginReturn(outcome)
    \/ \E outcome \in Outcomes : RequestReturn(outcome)

SpecRun == InitRun /\ [][NextRun]_vars

(***************************************************************************)
(* The functions of runtime/context.py, runtime/interpolate.py,            *)
(* runtime/metrics.py and runtime/load_result.py, each called on its own:  *)
(* call holds the function, its arguments a and b, and, once it has been   *)
(* applied (done), what it returned or raised (out).                       *)
(***************************************************************************)
CallBuildContext ==
    /\ call.fn = "build_context" /\ ~call.done
    /\ call' = [call EXCEPT !.done = TRUE, !.out = build_context(call.a, call.b)]
    /\ UNCHANGED <<run, scenarios, loadvars>>

CallResolveVariables ==
    /\ call.fn = "resolve_variables" /\ ~call.done
    /\ call' = [call EXCEPT !.done = TRUE, !.out = resolve_variables(call.a, call.b)]
    /\ UNCHANGED <<run, scenarios, loadvars>>

CallResolveEnv ==
    /\ call.fn = "resolve_env" /\ ~call.done
    /\ call' = [call EXCEPT !.done = TRUE, !.out = resolve_env(call.a, call.b)]
    /\ UNCHANGED <<run, scenarios, loadvars>>

CallInterpolate ==
    /\ call.fn = "interpolate" /\ ~call.done
    /\ call' = [call EXCEPT !.done = TRUE, !.out = interpolate(call.a, call.b)]
    /\ UNCHANGED <<run, scenarios, loadvars>>

CallResolveValueOrRef ==
    /\ call.fn = "resolve_value_or_ref" /\ ~call.done
    /\ call' = [call EXCEPT !.done = TRUE,
                            !.out = resolve_value_or_ref(call.a, call.b)]
    /\ UNCHANGED <<run, scenarios, loadvars>>

CallPercentile ==
    /\ call.fn = "_percentile" /\ ~call.done
    /\ call' = [call EXCEPT !.done = TRUE, !.out = Ok(percentile(call.a, call.b))]
    /\ UNCHANGED <<run, scenarios, loadvars>>

CallSummary ==
    /\ call.fn = "summary" /\ ~call.done
    /\ call' = [call EXCEPT !.done = TRUE,
                            !.out = Ok(summary(call.a, call.b.start_time,
                                               call.b.end_time, call.b.now))]
    /\ UNCHANGED <<run, scenarios, loadvars>>

CallSuccess ==
    /\ call.fn = "success" /\ ~call.done
    /\ call' = [call EXCEPT !.done = TRUE, !.out = Ok(LoadTestResult_success(call.a, call.b))]
    /\ UNCHANGED <<run, scenarios, loadvars>>

CallRenderResultLine ==
    /\ call.fn = "_render_result_line" /\ ~call.done
    /\ call' = [call EXCEPT !.done = TRUE, !.out = Ok(render_result_line(call.a, call.b))]
    /\ UNCHANGED <<run, scenarios, loadvars>>

\* The arguments tried.
\*   build_context      every pair of tables over three names and two values
\*   resolve_variables  blocks of up to MaxEntries variables, each a literal,
\*                      a reference to a variable or to the environment
\*                      binding B, or without a value; B bound or not
\*   resolve_env        blocks of up to MaxEntries bindings, and the process
\*                      environments over their keys
\*   interpolate        templates of up to MaxTokens pieces: placeholders,
\*                      parts of placeholders, quotes and blanks; contexts
\*                      where the value of a may itself hold a placeholder
\*   resolve_value_or_ref  no value, the literals of up to MaxTokens
\*                      characters (letters, blanks, quote characters)
\*                      between the quotes of the syntax, and references;
\*                      contexts that bind the referenced name or not
\*   _percentile        the sorted lists of up to MaxValues values and the
\*                      list 1..100, with percentiles from 0 to 100
\*   summary            the collectors with up to MaxValues records of two
\*                      scenarios, passed or failed, fast or slow, and
\*                      with up to MaxValues passed records of one scenario
\*                      with three latencies; read
\*                      before start(), while running, after stop(), and
\*                      after a stop() in the tick of start()
\*   success            no auth outcome, a passed and a failed one, with the
\*                      summary of each of these collectors
\*   _render_result_line  the same results as success
InitCall ==
    LET Call(fn, a, b) ==
            [fn |-> fn, a |-> a, b |-> b, done |-> FALSE,
             out |-> [ok |-> FALSE, val |-> <<>>, err |-> NoError]]
        \* the lists of at most n elements of S
        RECURSIVE ListsUpTo(_, _)
        ListsUpTo(S, n) ==
            IF n = 0 THEN {<<>>}
            ELSE LET shorter == ListsUpTo(S, n - 1)
                 IN shorter \cup {Append(l, e) : l \in shorter, e \in S}
        RECURSIVE Concat(_)
        Concat(l) == IF l = <<>> THEN <<>> ELSE Head(l) \o Concat(Tail(l))
        \* the dicts with keys among names and values among values
        Tables(names, values) == UNION {[S -> values] : S \in SUBSET names}
        T == Tables({<<"B">>, <<"q">>, <<"x">>}, {<<"h">>, <<"p">>})
        values == {ValueVor(Quoted(<<"p">>)), ValueVor(Quoted(<<"r">>)),
                   RefVor(<<"x">>), RefVor(<<"y">>), RefVor(<<"B">>), NoneVor}
        entries == {VarEntry(name, value) :
                      name \in {<<"x">>, <<"y">>, <<"B">>}, value \in values}
        variables == {None} \cup
                     {VariablesBlock(l) : l \in ListsUpTo(entries, MaxEntries)}
        envVars == {EnvVar(name, key) :
                      name \in {<<"B">>, <<"C">>}, key \in {<<"K">>, <<"J">>}}
        environments == {None} \cup
                        {Environment(l) : l \in ListsUpTo(envVars, MaxEntries)}
        environs == {e \in Tables({<<"K">>, <<"J">>}, {<<"h">>, <<"g">>}) :
                        <<"J">> \in DOMAIN e => e[<<"J">>] = <<"g">>}
        tokens == { <<"$", "{", "a", "}">>, <<"$", "{", "b", "}">>,
                    <<"$", "{", "_", "1", "}">>, <<"$", "{">>, <<"}">>, <<"$">>,
                    <<"a">>, <<"1">>, <<"\"">>, <<" ">> }
        templates == {Concat(l) : l \in ListsUpTo(tokens, MaxTokens)}
        contexts == {c \in Tables({<<"a">>, <<"b">>},
                                  {<<"x">>, <<"y", "z">>, <<"$", "{", "b", "}">>}) :
                        <<"b">> \in DOMAIN c => c[<<"b">>] = <<"y", "z">>}
        literals == {ValueVor(Quoted(l)) :
                       l \in ListsUpTo({"a", " ", "\""}, MaxTokens)}
        sorted == {l \in ListsUpTo({1, 2, 4, 7}, MaxValues) :
                      \A i \in 1 .. (Len(l) - 1) : l[i] <= l[i + 1]}
        collected == ListsUpTo([scenario : {"a", "b"}, success : BOOLEAN,
                              latency_ms : {1, 4}], MaxValues)
        timed == ListsUpTo([scenario : {"a"}, success : {TRUE},
                            latency_ms : {1, 4, 9}], MaxValues)
        clocks == {[start_time |-> 0, end_time |-> 0, now |-> 2],
                   [start_time |-> 1, end_time |-> 0, now |-> 3],
                   [start_time |-> 1, end_time |-> 3, now |-> 4],
                   [start_time |-> 1, end_time |-> 1, now |-> 4]}
        outcomes == {None, [given |-> TRUE, value |-> TRUE],
                     [given |-> TRUE, value |-> FALSE]}
    IN /\ \/ call \in {Call("build_context", e, v) : e \in T, v \in T}
          \/ call \in {Call("resolve_variables", v, e) :
                         v \in variables, e \in Tables({<<"B">>}, {<<"h">>})}
          \/ call \in {Call("resolve_env", e, g) : e \in environments, g \in environs}
          \/ call \in {Call("interpolate", t, c) : t \in templates, c \in contexts}
          \/ call \in {Call("resolve_value_or_ref", v, c) :
                         v \in {NoneVor, RefVor(<<"x">>), RefVor(<<"B">>)}
                                  \cup literals,
                         c \in Tables({<<"x">>}, {<<"h">>, <<"\"", "p", "\"">>})}
          \/ call \in {Call("_percentile", l, p) :
                         l \in sorted \cup {[i \in 1 .. 100 |-> i]},
                         p \in {0, 1, 25, 50, 75, 95, 99, 100}}
          \/ call \in {Call("summary", l, c) : l \in collected \cup timed, c \in clocks}
          \/ call \in {Call("success", o, summary(l, 1, 3, 4)) :
                         o \in outcomes, l \in collected}
          \/ call \in {Call("_render_result_line", o, summary(l, 1, 3, 4)) :
                         o \in outcomes, l \in collected}
       /\ scenarios = <<ScnStatus>>
       /\ run = NoRun
       /\ LoadIdle

NextCall ==
    \/ CallBuildContext
    \/ CallResolveVariables
    \/ CallResolveEnv
    \/ CallInterpolate
    \/ CallResolveValueOrRef
    \/ CallPercentile
    \/ CallSummary
    \/ CallSuccess
    \/ CallRenderResultLine

SpecCall == InitCall /\ [][NextCall]_vars

(***************************************************************************)
(* The specification of a load run.                                        *)
(***************************************************************************)
Init ==
    /\ profile \in Profiles
    /\ scenarios \in Tests
    /\ ctx \in Contexts
    /\ orch = [pc |-> "init", i |-> 0, wake |-> 0, single_pass |-> FALSE,
               ramp_up_seconds |-> 0, delay_between_users |-> 0, exc |-> NoError]
    /\ now = 1
    /\ stop_event = FALSE
    /\ client = [state |-> "none", authorization |-> <<>>]
    /\ start_time = 0
    /\ end_time = 0
    /\ records = <<>>
    /\ vu = [u \in UserIds |-> NoTask]
    /\ last_mark = NoMark
    /\ stop_time = 0
    /\ run = NoRun
    /\ call = [fn |-> "", done |-> FALSE]

Next ==
    \/ Start
    \/ RampWake
    \/ DurationWake
    \/ WaitDone
    \/ WaitTimeout
    \/ GatherDone
    \/ \E u \in UserIds : VUBegin(u)
    \/ \E u \in UserIds : \E outcome \in Outcomes : HttpReturn(u, outcome)
    \/ \E u \in UserIds : Sleep0Return(u)

Spec == Init /\ [][Next]_vars

\* The event loop runs what is ready: a timer that is due fires, and the
\* orchestrator runs when its await is over.  Nothing makes a request of a
\* virtual user return.
FairSpec ==
    /\ Spec
    /\ WF_vars(Start)
    /\ WF_vars(RampWake)
    /\ WF_vars(DurationWake)
    /\ WF_vars(WaitDone)
    /\ WF_vars(WaitTimeout)
    /\ WF_vars(GatherDone)

(***************************************************************************)
(* Properties of a load run.                                               *)
(***************************************************************************)
Started == orch.pc \notin {"init", "raised"}
Returned == orch.pc = "returned"
ContinuousRun == Started /\ ~orch.single_pass
SinglePassRun == Started /\ orch.single_pass
Marked == last_mark.by # -1

\* C1: when an ExpectStatus or ExpectJson step fails its assertion, the
\* step leaves the number of records unchanged, and the record appended by
\* the preceding Request step has success false and the assertion message
\* as its error.
C1_FailedExpectMarksPrecedingRecord ==
    Marked =>
        /\ last_mark.after = last_mark.before
        /\ last_mark.handle \in 1 .. Len(records)
        /\ records[last_mark.handle].success = FALSE
        /\ records[last_mark.handle].error = last_mark.error

\* a hasSize 2 check failed on a list of 3
C1_Witness ==
    /\ Marked
    /\ last_mark.error = Err("JSON size mismatch", 2, 3, <<>>)
    /\ Len(records) = 1
    /\ ~records[1].success

\* C2: under every interleaving of the virtual users, the record that
\* _mark_last_record_failed changes is the one appended by the most recent
\* Request step of the same virtual user in the same scenario iteration.
C2_MarkTargetsOwnIteration ==
    Marked =>
        /\ last_mark.changed = {last_mark.handle}
        /\ \A i \in last_mark.changed :
             /\ records[i].vu = last_mark.by
             /\ records[i].iter = last_mark.iter

\* a mark by one user whose record follows a record of another user, while
\* the other user has a request in flight
C2_Witness ==
    /\ Marked
    /\ last_mark.handle > 1
    /\ last_mark.handle = Len(records)
    /\ records[last_mark.handle - 1].vu # last_mark.by
    /\ \E w \in UserIds : w # last_mark.by /\ vu[w].pc = "http"

\* C6: in single-pass mode every scenario is executed exactly once in
\* total: with S scenarios of one Request step each, the run ends with
\* exactly S records, one per scenario, in declaration order.  (Stated for
\* the runs in which no task was ended by an exception.)
C6_SinglePassOneRecordPerScenario ==
    ( /\ Returned
      /\ orch.single_pass
      /\ \A k \in 1 .. Len(scenarios) :
           Cardinality({j \in 1 .. Len(scenarios[k].steps) :
                          scenarios[k].steps[j].t = "Request"}) = 1
      /\ \A u \in UserIds : vu[u].pc # "failed" )
    => /\ Len(records) = Len(scenarios)
       /\ \A k \in 1 .. Len(scenarios) :
            records[k].scenario = ScenarioName(scenarios[k])

C8_NoIterationBeginsAfterStop ==
    \A u \in UserIds : ~vu[u].late

\* a request issued after the stop signal, in an iteration begun before it
C8_Witness ==
    \E u \in UserIds :
        /\ stop_event
        /\ vu[u].pc = "http"
        /\ vu[u].req.after_stop
        /\ ~vu[u].late

\* C9: the stop signal is raised only once the duration has elapsed since
\* metrics.start; the sleep before it ends at start + duration, the time
\* spent ramping up being part of the duration.
C9_StopOnlyAfterDuration ==
    /\ stop_event =>
         /\ ContinuousRun
         /\ stop_time >= start_time + duration_seconds
         /\ now >= stop_time
    /\ orch.pc = "duration_sleep" =>
         /\ ~stop_event
         /\ orch.wake = start_time + duration_seconds

\* the stop signal raised exactly at start + duration after a ramp-up that
\* took time
C9_Witness ==
    /\ stop_event
    /\ orch.delay_between_users > 0
    /\ orch.i > 1
    /\ stop_time = start_time + duration_seconds

Result == RunResult(run.scenario_results, run.auth_result)

AuthPresent == run.test.auth.given
AuthFailedRun == run.auth_result.given /\ ~run.auth_result.success
AuthSucceeded == run.auth_result.given /\ run.auth_result.success

\* the positions of the login and of the scenario requests in the log
Logins == {i \in 1 .. Len(run.log) : run.log[i].kind = "login"}
ScenarioRequests == {i \in 1 .. Len(run.log) : run.log[i].kind = "scenario"}

\* the context run_test resolves from the test block, before the preflight
ResolvedContext ==
    LET env_map == resolve_env(run.test.environment, run.environ)
    IN build_context(env_map.val, resolve_variables(run.test.variables, env_map.val).val).val

\* the endpoint and the body fields of the auth block resolve
LoginResolves == LoginRequest(run.test.auth, ResolvedContext, <<>>).ok

\* C3: once the auth preflight has failed, for whatever reason, no scenario
\* request is ever issued and no scenario is started: the run has returned
\* with no scenario result.
C3_FailedPreflightStopsRun ==
    AuthFailedRun =>
        /\ ScenarioRequests = {}
        /\ run.sc = 0
        /\ run.scenario_results = <<>>
        /\ run.pc = "returned"

\* the login was answered 200 with a body in which the token is not found
C3_Witness ==
    /\ AuthFailedRun
    /\ run.login_response = Response(200, Body("nomatch", 0, <<>>))
    /\ run.auth_result.error.kind = "auth.login token not found using format"
    /\ Len(run.log) = 1

\* C4: when the auth preflight fails, the result of run_test reports
\* total_requests = 0, and the auth outcome is unsuccessful with an error.
C4_FailedPreflightReportsNoRequests ==
    (run.pc = "returned" /\ AuthFailedRun) =>
        /\ total_requests(Result) = 0
        /\ ~Result.auth.success
        /\ Result.auth.error # NoError

\* the login precedes every scenario request and is over when the first is
\* issued; after a successful preflight the client's header is Bearer
\* <token>, with the token of the login's response, and every scenario
\* request carries it
LoginBeforeScenariosWithBearer ==
    /\ \A i \in Logins : i = 1
    /\ (AuthPresent /\ ScenarioRequests # {}) =>
           /\ AuthSucceeded
           /\ run.pc # "login"
    /\ AuthSucceeded =>
           LET header == Bearer(run.login_response.body.s)
           IN /\ run.login_response.body.s # <<>>
              /\ run.authorization = header
              /\ \A i \in ScenarioRequests : run.log[i].authorization = header

\* C5 as stated: with an auth block the login is issued exactly once per
\* run, before the first scenario request, and every scenario request
\* carries the Bearer header, which does not change.
C5_LoginExactlyOnce ==
    /\ (AuthPresent /\ run.pc = "returned") => Cardinality(Logins) = 1
    /\ LoginBeforeScenariosWithBearer

\* C5, amended: the login is issued at most once per run: exactly once when
\* the endpoint and the body fields of the auth block resolve, and not at
\* all when they do not (the preflight then fails before it sends
\* anything); the rest as stated.
C5_LoginAtMostOnce ==
    /\ Cardinality(Logins) <= 1
    /\ (AuthPresent /\ run.pc \in {"login", "request", "returned"}) =>
           Cardinality(Logins) = (IF LoginResolves THEN 1 ELSE 0)
    /\ ~AuthPresent => Logins = {}
    /\ LoginBeforeScenariosWithBearer

\* a run that returned after a successful login and two scenario requests
C5_Witness ==
    /\ run.pc = "returned"
    /\ AuthSucceeded
    /\ Logins = {1}
    /\ Cardinality(ScenarioRequests) = 2
    /\ run.ctx[AuthTokenKey] = <<"T", "2">>

(***************************************************************************)
(* Properties of the errors of a scenario iteration (load run).            *)
(***************************************************************************)
\* the iterations of task u that an exception of this kind ended
Ended(u, kind) == {p.iter : p \in {q \in vu[u].problems : q.kind = kind}}

\* the indices of the records appended by iteration k of task u
RecordsOf(u, k) == {i \in DOMAIN records : records[i].vu = u /\ records[i].iter = k}

\* a Request step of iteration k of task u awaits its response
InFlight(u, k) == vu[u].pc = "http" /\ vu[u].iter = k

\* the task has not been ended by an exception
Alive(v) == v.pc # "failed" /\ v.exc = NoError

\* C11: when an expect step fails in a scenario iteration, that iteration
\* issues no further request (its failed record is its last record and no
\* request of it is in flight), the virtual user is not ended by it (it is
\* at its next await or returned normally), and the step that handles the
\* failure changes no other virtual user.
C11_AssertionFailureEndsOnlyTheIteration ==
    /\ [](
        \A u \in UserIds : \A k \in Ended(u, "assertion") :
            /\ ~InFlight(u, k)
            /\ RecordsOf(u, k) # {}
            /\ \A i \in RecordsOf(u, k) :
                 ~records[i].success => \A j \in RecordsOf(u, k) : j <= i
            /\ vu[u].iter = k => Alive(vu[u]) /\ vu[u].pc \in {"sleep0", "done", "cancelled"})
    /\ [][
        \A u \in UserIds :
            Ended(u, "assertion")' # Ended(u, "assertion")
                => \A w \in UserIds \ {u} : vu'[w] = vu[w]]_vars

\* an iteration of a virtual user was ended by a failed expect step, the
\* same user later appended a record in a later iteration, and another
\* user appended a record after the failed one
C11_Witness ==
    \E u \in UserIds : \E k \in Ended(u, "assertion") :
        \E i \in RecordsOf(u, k) :
            /\ ~records[i].success
            /\ \E j \in DOMAIN records :
                 j > i /\ records[j].vu = u /\ records[j].iter > k
            /\ \E j \in DOMAIN records : j > i /\ records[j].vu # u

\* iteration k of task u ended with a failed record, its last record; the
\* task issued no further request in it and went on
Contained(u, k) ==
    /\ \E i \in RecordsOf(u, k) :
         ~records[i].success /\ \A j \in RecordsOf(u, k) : j <= i
    /\ ~InFlight(u, k)
    /\ vu[u].iter = k => Alive(vu[u]) /\ vu[u].pc \in {"sleep0", "done", "cancelled"}

\* iteration k of task u ended the task with the RuntimeError of an expect
\* step, and left no record
MisuseEndedTask(u, k) ==
    /\ vu[u].pc = "failed"
    /\ vu[u].exc.kind \in {"expect status used before any request",
                           "expect json used before any request"}
    /\ vu[u].iter = k
    /\ RecordsOf(u, k) = {}

\* C12 (as the code has it): a transport failure of a Request step and an
\* assertion failure of an expect step are contained to the iteration (a
\* failed record, its last; the task goes on); an expect step before any
\* request ends the task with a RuntimeError and records nothing; in each
\* case the other tasks are left as they are.
C12_TransportAndAssertionContained ==
    /\ [](\A u \in UserIds :
            /\ \A k \in Ended(u, "transport") \cup Ended(u, "assertion") :
                 Contained(u, k)
            /\ \A k \in Ended(u, "no response yet") : MisuseEndedTask(u, k))
    /\ [][
        \A u \in UserIds :
            vu'[u].problems # vu[u].problems
                => \A w \in UserIds \ {u} : vu'[w] = vu[w]]_vars

\* C12 (as stated): every per-iteration error, of the three kinds, is
\* recorded as a failed outcome of its iteration and the task goes on.
C12_EveryIterationErrorContained ==
    \A u \in UserIds : \A p \in vu[u].problems : Contained(u, p.iter)

\* one task had a transport failure and later an expect step before any
\* request, another had an assertion failure and is still running
C12_Witness ==
    \E u, w \in UserIds :
        /\ u # w
        /\ Ended(u, "transport") # {}
        /\ Ended(u, "no response yet") # {}
        /\ Ended(w, "assertion") # {}
        /\ Pending(vu[w])

\* the iterations, of all tasks, that an exception of one of these kinds ended
ProblemIterations(kinds) ==
    UNION { {<<u, k>> : k \in UNION {Ended(u, kind) : kind \in kinds}} : u \in UserIds }

\* the iterations that appended the failed records
FailedIterations ==
    {<<records[i].vu, records[i].iter>> : i \in {j \in DOMAIN records : ~records[j].success}}

\* the failed records are one for one the iterations these kinds of exception ended
FailedCountIs(kinds) ==
    /\ failed_requests(records) = Cardinality(ProblemIterations(kinds))
    /\ FailedIterations = ProblemIterations(kinds)

\* run_load_test_async raises only for its arguments, before any task runs
RaisesOnlyForArguments ==
    /\ orch.exc # NoError <=> orch.pc = "raised"
    /\ orch.pc = "raised" => num_users <= 0 /\ \A u \in UserIds : vu[u].problems = {}

\* C13 (as the code has it): a run does not raise because of what happens
\* in an iteration, and at every moment, also in the returned result, the
\* failed-request count is the number of iterations ended by a transport
\* failure or an assertion failure, each with exactly one failed record.
C13_FailedCountIsTransportAndAssertion ==
    RaisesOnlyForArguments /\ FailedCountIs({"transport", "assertion"})

\* C13 (as stated): the failed-request count is the number of iterations
\* ended by a per-iteration problem of any of the three kinds.
C13_FailedCountIsEveryProblem ==
    RaisesOnlyForArguments
        /\ FailedCountIs({"transport", "assertion", "no response yet"})

\* a run returned with two failed records after iterations that ended in a
\* transport failure, an assertion failure and an expect step before any
\* request
C13_Witness ==
    /\ Returned
    /\ failed_requests(records) = 2
    /\ \E u \in UserIds : Ended(u, "transport") # {}
    /\ \E u \in UserIds : Ended(u, "assertion") # {}
    /\ \E u \in UserIds : Ended(u, "no response yet") # {}

(***************************************************************************)
(* Properties of the configuration errors of run_test.                     *)
(***************************************************************************)
\* the environment bindings and the variables of a test, as lists
EnvVarsOf(t) == IF t.environment.given THEN t.environment.envVars ELSE <<>>
VarsOf(t) == IF t.variables.given THEN t.variables.vars ELSE <<>>
EnvNames(t) == {EnvVarsOf(t)[i].name : i \in DOMAIN EnvVarsOf(t)}
VarNames(t) == {VarsOf(t)[i].name : i \in DOMAIN VarsOf(t)}

\* the configuration errors of a test, by the message run_test raises for each
ConfigurationErrors(t, environ) ==
    {kind \in {"Missing environment variable", "Reference not found",
               "Duplicate names in environment and variables", "Missing target"} :
        \/ /\ kind = "Missing environment variable"
           /\ \E i \in DOMAIN EnvVarsOf(t) :
                Strip(EnvVarsOf(t)[i].key, {"\""}) \notin DOMAIN environ
        \/ /\ kind = "Reference not found"
           /\ \/ \E i \in DOMAIN VarsOf(t) :
                   /\ VarsOf(t)[i].value.value = <<>>
                   /\ VarsOf(t)[i].value.ref # <<>>
                   /\ VarsOf(t)[i].value.ref \notin
                        EnvNames(t) \cup {VarsOf(t)[j].name : j \in 1 .. (i - 1)}
              \/ /\ t.target.given
                 /\ t.target.value = <<>>
                 /\ t.target.ref # <<>>
                 /\ t.target.ref \notin EnvNames(t) \cup VarNames(t)
        \/ /\ kind = "Duplicate names in environment and variables"
           /\ EnvNames(t) \cap VarNames(t) # {}
        \/ /\ kind = "Missing target"
           /\ ~t.target.given}

\* C14: when the test has a missing environment variable, an unresolved
\* reference in a variable or in the target, a name bound by both the
\* environment and the variables, or no target, run_test ends by raising
\* one of these errors to its caller, with no request, login or scenario,
\* handed to the client; and run_test raises for nothing else.
C14_ConfigurationErrorsRaiseBeforeAnyRequest ==
    /\ (run.pc \notin {"none", "init"} /\ ConfigurationErrors(run.test, run.environ) # {})
          => /\ run.pc = "raised"
             /\ run.exc.kind \in ConfigurationErrors(run.test, run.environ)
             /\ run.log = <<>>
             /\ run.auth_result = NoAuthResult
             /\ run.scenario_results = <<>>
    /\ run.pc = "raised" => ConfigurationErrors(run.test, run.environ) # {}

\* run_test raised for a name bound twice, in a test with an auth block
\* whose login would have been sent
C14_Witness ==
    /\ run.pc = "raised"
    /\ run.exc.kind = "Duplicate names in environment and variables"
    /\ run.test.auth.given
    /\ run.test.target.given
    /\ run.log = <<>>

\* C15 (as stated): in a test with an auth block where authToken is already
\* bound by the environment bindings or the variables, run_test raises to
\* its caller and no request, the login included, is handed to the client.
C15_ReservedNameRaisesBeforeLogin ==
    (/\ run.pc \notin {"none", "init"}
     /\ run.test.auth.given
     /\ AuthTokenKey \in EnvNames(run.test) \cup VarNames(run.test))
        => run.pc = "raised" /\ run.log = <<>>

\* C16: run_load_test_async called with num_users <= 0 raises "load.users
\* must be > 0" and has done nothing else: the client is not opened, the
\* collector is not started, no task is created, no request is in flight
\* and no record exists.
C16_InvalidUsersRaiseBeforeAnything ==
    (num_users <= 0 /\ orch.pc # "init")
        => /\ orch.pc = "raised"
           /\ orch.exc.kind = "load.users must be > 0"
           /\ client.state = "none"
           /\ \A u \in UserIds : vu[u] = NoTask
           /\ records = <<>>
           /\ start_time = 0 /\ end_time = 0
           /\ ~stop_event

\* a call with users = -1 and a duration and ramp-up that would otherwise
\* start a continuous run has raised
C16_Witness ==
    /\ orch.pc = "raised"
    /\ profile.given /\ profile.users < 0
    /\ profile.duration > 0 /\ profile.ramp_up > 0
    /\ scenarios # <<>>

(***************************************************************************)
(* Properties of the functions of context.py and interpolate.py.           *)
(***************************************************************************)
\* the function has been applied to the arguments of the call
Called(fn) == call.fn = fn /\ call.done

\* the call leaves its arguments as they were
ArgumentsKept == call.fn # "" => call'.a = call.a /\ call'.b = call.b

\* C17: build_context returns exactly the union of the environment table
\* and the variables table when their key sets are disjoint; when they
\* share a key it raises, naming a shared key, and returns no table; its
\* two arguments are as they were before the call.
C17_BuildContextIsDisjointUnion ==
    /\ [](
        Called("build_context") =>
            LET env_map == call.a
                vars_map == call.b
                out == call.out
            IN IF DOMAIN env_map \cap DOMAIN vars_map = {}
               THEN /\ out.ok
                    /\ DOMAIN out.val = DOMAIN env_map \cup DOMAIN vars_map
                    /\ \A k \in DOMAIN env_map : out.val[k] = env_map[k]
                    /\ \A k \in DOMAIN vars_map : out.val[k] = vars_map[k]
               ELSE /\ ~out.ok
                    /\ out.val = <<>>
                    /\ out.err.kind = "Duplicate names in environment and variables"
                    /\ out.err.name \in DOMAIN env_map \cap DOMAIN vars_map)
    /\ [][ArgumentsKept]_vars

\* build_context returned the union of two non-empty disjoint tables
C17_Witness ==
    /\ Called("build_context")
    /\ call.out.ok
    /\ DOMAIN call.a # {} /\ Cardinality(DOMAIN call.b) = 2
    /\ Cardinality(DOMAIN call.out.val) = 3

\* the bindings of entries before entry i that bind this name
EarlierBindings(entries, i, name) == {j \in 1 .. (i - 1) : entries[j].name = name}

\* the largest element of a non-empty set of numbers
Max(S) == CHOOSE n \in S : \A m \in S : m <= n

\* entry i cannot be resolved: it has no value, or it refers to a name that
\* neither the environment table nor an earlier variable binds
Unresolvable(entries, env_map, i) ==
    LET value == entries[i].value
    IN \/ value.none
       \/ /\ value.value = <<>>
          /\ value.ref \notin DOMAIN env_map
          /\ EarlierBindings(entries, i, value.ref) = {}

\* the value of entry i, read from the declarations: its literal, or the
\* value of the nearest earlier variable of the name it refers to, or else
\* of the environment binding of that name
RECURSIVE DeclaredValue(_, _, _)
DeclaredValue(entries, env_map, i) ==
    LET value == entries[i].value
        earlier == EarlierBindings(entries, i, value.ref)
    IN IF value.value # <<>> THEN Unquote(value.value)
       ELSE IF earlier # {} THEN DeclaredValue(entries, env_map, Max(earlier))
       ELSE env_map[value.ref]

\* C18: resolve_variables resolves the bindings in declaration order, a
\* reference against the environment table and the variables declared
\* before it: it yields the value of the nearest earlier variable of that
\* name, or else of the environment binding; a reference to a variable
\* declared later, or to the variable being declared, raises "Reference
\* not found" for that name and no table is returned.
C18_ReferencesResolveAgainstEarlierBindings ==
    /\ [](
        Called("resolve_variables") =>
            LET entries == IF call.a.given THEN call.a.vars ELSE <<>>
                env_map == call.b
                out == call.out
                bad == {i \in DOMAIN entries : Unresolvable(entries, env_map, i)}
                first == CHOOSE i \in bad : \A j \in bad : i <= j
            IN IF bad = {}
               THEN /\ out.ok
                    /\ DOMAIN out.val = {entries[i].name : i \in DOMAIN entries}
                    /\ \A i \in DOMAIN entries :
                         EarlierBindings(entries, Len(entries) + 1, entries[i].name)
                                \subseteq 1 .. i
                            => out.val[entries[i].name] = DeclaredValue(entries, env_map, i)
               ELSE /\ ~out.ok
                    /\ out.val = <<>>
                    /\ IF entries[first].value.none
                       THEN out.err.kind = "Missing value"
                       ELSE /\ out.err.kind = "Reference not found"
                            /\ out.err.name = entries[first].value.ref)
    /\ [][ArgumentsKept]_vars

\* three variables resolved: the second refers to the first, the third to
\* an environment binding
C18_Witness ==
    /\ Called("resolve_variables")
    /\ call.out.ok
    /\ call.a.given /\ Len(call.a.vars) = 3
    /\ call.a.vars[1].value.value # <<>>
    /\ call.a.vars[2].value.ref = call.a.vars[1].name
    /\ call.a.vars[3].value.ref \in DOMAIN call.b
    /\ call.a.vars[3].value.ref \notin {call.a.vars[1].name, call.a.vars[2].name}
    /\ Cardinality(DOMAIN call.out.val) = 2

\* the key of an environment binding: v.value.key.strip('"')
KeyOf(envVar) == Strip(envVar.key, {"\""})

\* C19: resolve_env raises whenever a binding names a key that is not in
\* the process environment, the error names that key (the first such key
\* in declaration order) and no table is returned, not even of the
\* bindings before it; when every key is present it returns the table
\* that maps each local name to the value of its key.
C19_ResolveEnvAllOrNothing ==
    /\ [](
        Called("resolve_env") =>
            LET envVars == IF call.a.given THEN call.a.envVars ELSE <<>>
                environ == call.b
                out == call.out
                missing == {i \in DOMAIN envVars : KeyOf(envVars[i]) \notin DOMAIN environ}
                first == CHOOSE i \in missing : \A j \in missing : i <= j
            IN IF missing = {}
               THEN /\ out.ok
                    /\ DOMAIN out.val = {envVars[i].name : i \in DOMAIN envVars}
                    /\ \A i \in DOMAIN envVars :
                         (\A j \in DOMAIN envVars : envVars[j].name = envVars[i].name => j <= i)
                            => out.val[envVars[i].name] = environ[KeyOf(envVars[i])]
               ELSE /\ ~out.ok
                    /\ out.val = <<>>
                    /\ out.err.kind = "Missing environment variable"
                    /\ out.err.name = KeyOf(envVars[first]))
    /\ [][ArgumentsKept]_vars

\* resolve_env raised for the second of two bindings, after the first had
\* been resolved
C19_Witness ==
    /\ Called("resolve_env")
    /\ ~call.out.ok
    /\ call.a.given /\ Len(call.a.envVars) >= 2
    /\ KeyOf(call.a.envVars[1]) \in DOMAIN call.b
    /\ KeyOf(call.a.envVars[2]) \notin DOMAIN call.b
    /\ call.out.err.name = KeyOf(call.a.envVars[2])
    /\ call.out.val = <<>>

\* s[i..j] is an occurrence of ${identifier}
IsPlaceholder(s, i, j) ==
    /\ 1 <= i /\ i + 3 <= j /\ j <= Len(s)
    /\ s[i] = "$" /\ s[i + 1] = "{" /\ s[j] = "}"
    /\ s[i + 2] \in IdStart
    /\ \A k \in (i + 3) .. (j - 1) : s[k] \in IdChar

\* the occurrences of ${identifier} in s, as pairs of positions
Placeholders(s) ==
    {p \in (1 .. Len(s)) \X (1 .. Len(s)) : IsPlaceholder(s, p[1], p[2])}

\* the identifier of an occurrence
KeyAt(s, p) == SubSeq(s, p[1] + 2, p[2] - 1)

\* s with the occurrences P, found in the template, replaced by their
\* values, the rightmost first: what a replacement puts in is never looked at
RECURSIVE ReplacedFromRight(_, _, _)
ReplacedFromRight(s, P, c) ==
    IF P = {} THEN s
    ELSE LET p == CHOOSE q \in P : \A r \in P : r[1] <= q[1]
         IN ReplacedFromRight(SubSeq(s, 1, p[1] - 1) \o c[KeyAt(s, p)]
                                  \o SubSeq(s, p[2] + 1, Len(s)),
                              P \ {p}, c)

\* C20: interpolate replaces every ${identifier} of the template (stripped
\* of blanks and quotes) by the context value of the identifier, in one
\* pass: the occurrences are those of the template, and a value put in is
\* not scanned again; when an identifier is not in the context it raises,
\* naming it, and returns no string.
C20_InterpolateSinglePass ==
    /\ [](
        Called("interpolate") =>
            LET s == Unquote(call.a)
                c == call.b
                out == call.out
                unknown == {p \in Placeholders(s) : KeyAt(s, p) \notin DOMAIN c}
                first == CHOOSE p \in unknown : \A q \in unknown : p[1] <= q[1]
            IN IF unknown = {}
               THEN out.ok /\ out.val = ReplacedFromRight(s, Placeholders(s), c)
               ELSE /\ ~out.ok
                    /\ out.val = <<>>
                    /\ out.err.kind = "Unknown variable in template"
                    /\ out.err.name = KeyAt(s, first))
    /\ [][ArgumentsKept]_vars

\* a template with two placeholders was interpolated in a context where
\* the value of the first is itself a placeholder of a bound name: the
\* result still holds that placeholder
C20_Witness ==
    /\ Called("interpolate")
    /\ call.out.ok
    /\ Cardinality(Placeholders(Unquote(call.a))) = 2
    /\ \E p \in Placeholders(Unquote(call.a)) :
         Placeholders(call.b[KeyAt(Unquote(call.a), p)]) # {}
    /\ \E p \in Placeholders(call.out.val) : KeyAt(call.out.val, p) \in DOMAIN call.b

(***************************************************************************)
(* Properties of runtime/metrics.py and runtime/load_result.py.            *)
(***************************************************************************)
\* C21: _percentile of an empty list is 0 and of a one-element list is the
\* element, for every p; otherwise, with k = p/100 * (n-1), it is the last
\* element when floor(k)+1 is past the end and else values[floor(k)] +
\* frac(k) * (values[floor(k)+1] - values[floor(k)]) (0-based), a value
\* between the two it interpolates; for the list 1..100 it is 1, 50.5,
\* 95.05, 99.01 and 100 for p = 0, 50, 95, 99 and 100.  (In hundredths.)
C21_PercentileInterpolates ==
    /\ [](Called("_percentile") =>
            LET values == call.a
                p == call.b
                n == Len(values)
                out == call.out.val
                \* floor(k) and 100 * frac(k), from k = p * (n-1) / 100
                lo == CHOOSE f \in 0 .. n : 100 * f <= p * (n - 1) /\ p * (n - 1) < 100 * (f + 1)
                frac == p * (n - 1) - 100 * lo
            IN /\ call.out.ok
               /\ n = 0 => out = 0
               /\ n = 1 => out = 100 * values[1]
               /\ (n > 1 /\ lo + 1 >= n) => out = 100 * values[n]
               /\ (n > 1 /\ lo + 1 < n) =>
                     /\ out = 100 * values[lo + 1] + frac * (values[lo + 2] - values[lo + 1])
                     /\ 100 * values[lo + 1] <= out /\ out <= 100 * values[lo + 2]
               /\ values = [i \in 1 .. 100 |-> i] =>
                     /\ p = 0 => out = 100
                     /\ p = 50 => out = 5050
                     /\ p = 95 => out = 9505
                     /\ p = 99 => out = 9901
                     /\ p = 100 => out = 10000)
    /\ [][ArgumentsKept]_vars

\* the 95th percentile of 1..100 has been computed
C21_Witness ==
    /\ Called("_percentile")
    /\ Len(call.a) = 100
    /\ call.b = 95
    /\ call.out.val = 9505

\* C22: for every record set, the summary has total = successful + failed,
\* with total the number of records and successful the number of passed
\* ones; its error rate is failed / total * 100, and 0 without a record; and
\* its scenario summaries partition the records by scenario name: one summary
\* for each distinct name, counting the records of that name, so that the
\* totals, the successful and the failed counts of the scenarios sum to the
\* overall ones.
C22_SummaryPartitionsTheRecords ==
    /\ [](Called("summary") =>
            LET recs == call.a
                s == call.out.val
                Of(name) == {i \in DOMAIN recs : recs[i].scenario = name}
                Passed(S) == Cardinality({i \in S : recs[i].success})
                RECURSIVE Sum(_, _)
                Sum(F(_), i) ==
                    IF i = 0 THEN 0 ELSE F(s.scenarios[i]) + Sum(F, i - 1)
                totals(sc) == sc.total_requests
                successfuls(sc) == sc.successful_requests
                faileds(sc) == sc.failed_requests
            IN /\ call.out.ok
               /\ s.total_requests = Len(recs)
               /\ s.successful_requests = Passed(DOMAIN recs)
               /\ s.total_requests = s.successful_requests + s.failed_requests
               /\ IF s.total_requests = 0
                  THEN s.error_rate.num = 0
                  ELSE s.error_rate.num * s.total_requests
                         = s.failed_requests * 100 * s.error_rate.den
               /\ s.error_rate.den > 0
               /\ {s.scenarios[i].name : i \in DOMAIN s.scenarios}
                    = {recs[i].scenario : i \in DOMAIN recs}
               /\ \A i, j \in DOMAIN s.scenarios :
                     s.scenarios[i].name = s.scenarios[j].name => i = j
               /\ \A i \in DOMAIN s.scenarios :
                     LET sc == s.scenarios[i]
                     IN /\ sc.total_requests = Cardinality(Of(sc.name))
                        /\ sc.successful_requests = Passed(Of(sc.name))
                        /\ sc.failed_requests
                             = sc.total_requests - sc.successful_requests
               /\ Sum(totals, Len(s.scenarios)) = s.total_requests
               /\ Sum(successfuls, Len(s.scenarios)) = s.successful_requests
               /\ Sum(faileds, Len(s.scenarios)) = s.failed_requests)
    /\ [][ArgumentsKept]_vars

\* a summary of three records of two scenarios, one of them failed
C22_Witness ==
    /\ Called("summary")
    /\ Len(call.a) = 3
    /\ Len(call.out.val.scenarios) = 2
    /\ call.out.val.scenarios[1].total_requests = 2
    /\ call.out.val.failed_requests = 1
    /\ call.out.val.scenarios[2].failed_requests = 1

\* C23: the summary of a collector without records has 0 for every count,
\* for the error rate, for every latency statistic and for the requests per
\* second, and no scenario summary; the requests per second are the total
\* divided by the elapsed seconds, and 0 when no time elapsed; and the elapsed
\* seconds are 0 before start().
C23_EmptySummaryIsZero ==
    /\ [](Called("summary") =>
            LET s == call.out.val
                elapsed == s.duration_seconds
            IN /\ call.out.ok
               /\ call.a = <<>> =>
                     /\ s.total_requests = 0
                     /\ s.successful_requests = 0
                     /\ s.failed_requests = 0
                     /\ s.error_rate.num = 0
                     /\ s.latency_min_ms = 0
                     /\ s.latency_max_ms = 0
                     /\ s.latency_avg_ms.num = 0
                     /\ s.latency_p50_ms = 0
                     /\ s.latency_p95_ms = 0
                     /\ s.latency_p99_ms = 0
                     /\ s.requests_per_sec.num = 0
                     /\ s.scenarios = <<>>
               /\ s.requests_per_sec.den > 0
               /\ IF elapsed = 0
                  THEN s.requests_per_sec.num = 0
                  ELSE s.requests_per_sec.num * elapsed
                         = s.total_requests * s.requests_per_sec.den
               /\ call.b.start_time = 0 => elapsed = 0
               /\ elapsed >= 0)
    /\ [][ArgumentsKept]_vars

\* the summary of an empty collector read before start()
C23_Witness ==
    /\ Called("summary")
    /\ call.a = <<>>
    /\ call.b.start_time = 0
    /\ call.b.now > 0
    /\ call.out.val.requests_per_sec.num = 0
    /\ call.out.val.scenarios = <<>>

\* C24: LoadTestResult.success is true exactly when the auth outcome is not a
\* failure (it is None or True) and the error rate of the summary is zero; a
\* result with a failed auth outcome is unsuccessful whatever its metrics.
C24_SuccessIsAuthAndNoError ==
    /\ [](Called("success") =>
            LET auth_success == call.a
                failedAuth == auth_success.given /\ ~auth_success.value
            IN /\ call.out.ok
               /\ call.out.val
                    <=> (~failedAuth /\ call.b.error_rate.num = 0)
               /\ failedAuth => ~call.out.val)
    /\ [][ArgumentsKept]_vars

\* a result with a failed auth outcome and no failed request
C24_Witness ==
    /\ Called("success")
    /\ call.a.given /\ ~call.a.value
    /\ call.b.total_requests > 0
    /\ call.b.failed_requests = 0
    /\ ~call.out.val

(***************************************************************************)
(* Properties of the records of a load run.                                *)
(***************************************************************************)
\* the request of task u completes or fails in this step
Completes(u) ==
    vu[u].pc = "http" /\ vu'[u] # vu[u] /\ vu'[u].pc # "cancelled"

\* C25: a step in which the HTTP call of a Request step completes or fails
\* appends exactly one record, the record of that request, and no other
\* step appends one; no record is ever removed; a record is as it was
\* appended ever after the step that appended it, and in that step it is
\* changed at most once, by _mark_last_record_failed: from successful to
\* failed, with the error text set.  A failed record is never successful
\* again.  While a request is in flight, the records of its iteration are
\* one for each earlier Request step of the scenario.
C25_OneRecordPerCompletedRequest ==
    /\ [](\A u \in UserIds :
            vu[u].pc = "http" =>
                Cardinality(RecordsOf(u, vu[u].iter))
                  = Cardinality({i \in 1 .. (vu[u].st - 1) :
                                   scenarios[vu[u].sc].steps[i].t = "Request"}))
    /\ [][
        LET n == Len(records)
            new == records'[n + 1]
        IN /\ Len(records') \in {n, n + 1}
           /\ \A i \in DOMAIN records : records'[i] = records[i]
           /\ Cardinality({u \in UserIds : Completes(u)}) = Len(records') - n
           /\ \A u \in UserIds : Completes(u) =>
                 /\ new.vu = u /\ new.iter = vu[u].iter
                 /\ new.method = vu[u].req.method /\ new.path = vu[u].req.path
           /\ last_mark'.n \in {last_mark.n, last_mark.n + 1}
           /\ last_mark'.n = last_mark.n + 1 =>
                 /\ Len(records') = n + 1
                 /\ last_mark'.changed = {n + 1}
                 /\ last_mark'.before = n + 1 /\ last_mark'.after = n + 1
                 /\ last_mark'.was = {TRUE}
                 /\ ~new.success /\ new.error = last_mark'.error
                 /\ new.error # NoError
           /\ last_mark'.n = last_mark.n => last_mark' = last_mark
      ]_vars

\* a record was marked failed in the step that appended it, records were
\* appended after it, and a request in flight was cancelled without a record
C25_Witness ==
    /\ Returned
    /\ last_mark.n >= 1
    /\ Len(records) > last_mark.after
    /\ ~records[last_mark.after].success
    /\ \E u \in UserIds : vu[u].pc = "cancelled" /\ RecordsOf(u, vu[u].iter) = {}

(***************************************************************************)
(* Properties of the result of run_test.                                   *)
(***************************************************************************)
\* every scenario of the test has a result, and every result is a success
AllScenariosPassed ==
    /\ Len(run.scenario_results) = Len(scenarios)
    /\ \A i \in DOMAIN run.scenario_results : run.scenario_results[i].success

\* the messages of the AssertionError of an expect step
ExpectationFailures ==
    {"Expected status", "JSON size mismatch", "Expected JSON path to be array",
     "Expected JSON path to be sized", "Expected JSON path to be not empty",
     "JSON value mismatch", "JSONPath did not match anything"}

\* scenario i is one Request step followed by expect steps only
OneRequestThenExpects(i) ==
    LET steps == scenarios[i].steps
    IN /\ Len(steps) >= 2
       /\ steps[1].t = "Request"
       /\ \A j \in 2 .. Len(steps) : steps[j].t \in {"ExpectStatus", "ExpectJson"}

\* C26: when run_test returns after a successful preflight with every
\* scenario passed, it reports failed = 0 and total_requests = the number of
\* scenario requests issued plus one for the login, which was sent once:
\* 2 for one scenario with one Request step.
C26_PassedRunCountsLoginAndRequests ==
    (run.pc = "returned" /\ AuthSucceeded /\ AllScenariosPassed) =>
        /\ failed(Result) = 0
        /\ Cardinality(Logins) = 1
        /\ total_requests(Result) = Cardinality(ScenarioRequests) + 1
        /\ (Len(scenarios) = 1 /\ OneRequestThenExpects(1))
              => total_requests(Result) = 2

\* a run of one scenario with one Request step returned after a successful
\* preflight, with the scenario passed
C26_Witness ==
    /\ run.pc = "returned"
    /\ AuthSucceeded
    /\ AllScenariosPassed
    /\ Len(scenarios) = 1
    /\ OneRequestThenExpects(1)
    /\ total_requests(Result) = 2
    /\ failed(Result) = 0

\* C27 (as stated): for a test without auth with one scenario, a Request
\* step followed by expect steps, when an expectation fails run_test reports
\* failed = 1 and total_requests = 1.
C27_FailedExpectationCountsItsRequest ==
    (/\ run.pc = "returned"
     /\ ~AuthPresent
     /\ Len(scenarios) = 1
     /\ OneRequestThenExpects(1)
     /\ Len(run.scenario_results) = 1
     /\ run.scenario_results[1].error.kind \in ExpectationFailures) =>
        /\ failed(Result) = 1
        /\ total_requests(Result) = 1

\* C28 (as stated): in a run without auth failure every scenario has its
\* result, in declaration order, whether or not an earlier one failed; and
\* with a passing scenario followed by one whose expectation fails, each a
\* Request step followed by expect steps, the result has 2 total requests,
\* no failure for the first scenario and one for the second.
C28_FailedScenarioDoesNotStopTheNext ==
    (run.pc = "returned" /\ ~AuthFailedRun) =>
        /\ Len(run.scenario_results) = Len(scenarios)
        /\ \A i \in DOMAIN scenarios :
              run.scenario_results[i].name = scenarios[i].name
        /\ (/\ ~AuthPresent
            /\ Len(scenarios) = 2
            /\ OneRequestThenExpects(1) /\ OneRequestThenExpects(2)
            /\ run.scenario_results[1].success
            /\ run.scenario_results[2].error.kind \in ExpectationFailures) =>
               /\ total_requests(Result) = 2
               /\ failed(Result) = 1
               /\ ~run.scenario_results[2].success

(***************************************************************************)
(* Properties of the spawning of the virtual users.                        *)
(***************************************************************************)
\* the users spawned so far
Spawned == {u \in UserIds : vu[u].pc # "none"}

\* C29: in continuous mode the ramp-up is clamped to the duration and the
\* delay between two spawns is the clamped ramp-up divided by the number of
\* users (0 for no ramp-up); the users are spawned in index order (those
\* spawned so far are the first orch.i ones), never more than `users`, each
\* once (a spawned task is never created again); a spawn after a ramp-up
\* sleep is of one user, no sooner than the delay after the spawn before
\* it; and the stop event is set only when all `users` users are spawned.
C29_AllUsersSpawnedBeforeStop ==
    /\ [](ContinuousRun =>
            LET clamped == IF ramp_up_arg > duration_seconds
                           THEN duration_seconds ELSE ramp_up_arg
            IN /\ orch.ramp_up_seconds = clamped
               /\ orch.delay_between_users * num_users = clamped
               /\ Spawned = {u \in UserIds : u < orch.i}
               /\ orch.i <= num_users
               /\ orch.pc = "ramp_sleep" =>
                     /\ ~stop_event
                     /\ orch.wake = now + orch.delay_between_users
               /\ stop_event => Cardinality(Spawned) = num_users)
    /\ [][ContinuousRun' =>
            /\ \A u \in Spawned :
                  /\ vu'[u].pc # "none"
                  /\ vu'[u].pc = "created" => vu[u] = vu'[u]
            /\ \A u \in Spawned' \ Spawned : vu'[u].pc = "created"
            /\ orch.pc = "ramp_sleep" /\ orch' # orch =>
                  /\ Cardinality(Spawned' \ Spawned) = 1
                  /\ now' >= now + orch.delay_between_users
      ]_vars

\* a continuous run of two users whose ramp-up was clamped to the duration:
\* the second user was spawned a delay after the first, and the stop event
\* is set
C29_Witness ==
    /\ ContinuousRun
    /\ num_users = 2
    /\ ramp_up_arg > duration_seconds
    /\ orch.delay_between_users > 0
    /\ stop_event
    /\ Spawned = {0, 1}

(***************************************************************************)
(* Properties of the response cursor of a scenario iteration.              *)
(***************************************************************************)
\* the Request steps of the scenario task u is in, before its step st
RequestsBefore(u) ==
    {j \in 1 .. (vu[u].st - 1) : scenarios[vu[u].sc].steps[j].t = "Request"}

\* C30: a task that awaits the response of a Request step has run the steps
\* before it in order: its iteration began with a Request step (an expect
\* step with an empty cursor ends the task), it has one record for each
\* earlier Request step, and its cursor is empty when there is none and
\* otherwise the response of the latest of them, whose record is the last
\* record of this iteration.  Within an iteration the step only advances,
\* over expect steps, from one Request step to the next.  The cursor of a
\* task changes only in a step of that task: it is emptied when an iteration
\* begins and set when a request of the iteration completes, to the response
\* whose record the step appends; an expect step that fails in that step
\* has evaluated this response.
C30_ResponseCursorIsLocalToIteration ==
    /\ [](\A u \in UserIds :
            /\ vu[u].pc \in {"http", "sleep0"} =>
                  scenarios[vu[u].sc].steps[1].t = "Request"
            /\ vu[u].pc = "http" =>
                  /\ scenarios[vu[u].sc].steps[vu[u].st].t = "Request"
                  /\ Cardinality(RecordsOf(u, vu[u].iter))
                       = Cardinality(RequestsBefore(u))
                  /\ IF RequestsBefore(u) = {}
                     THEN vu[u].last = NoResponse
                     ELSE /\ vu[u].last # NoResponse
                          /\ vu[u].handle = Max(RecordsOf(u, vu[u].iter))
                          /\ vu[u].last.status_code
                               = records[vu[u].handle].status_code)
    /\ [][\A u \in UserIds :
            /\ (vu'[u].iter = vu[u].iter /\ vu[u].pc = "http" /\ vu'[u].pc = "http"
                  /\ vu'[u] # vu[u]) =>
                  /\ vu'[u].st > vu[u].st
                  /\ \A j \in (vu[u].st + 1) .. (vu'[u].st - 1) :
                        scenarios[vu[u].sc].steps[j].t \in {"ExpectStatus", "ExpectJson"}
            /\ vu'[u].iter >= vu[u].iter
            /\ vu'[u].last # vu[u].last =>
                  \/ vu'[u].iter > vu[u].iter /\ vu'[u].last = NoResponse
                  \/ /\ Completes(u)
                     /\ vu'[u].iter = vu[u].iter
                     /\ records'[Len(records')].vu = u
                     /\ records'[Len(records')].iter = vu[u].iter
                     /\ vu'[u].last.status_code
                          = records'[Len(records')].status_code
            /\ (Completes(u) /\ last_mark'.n > last_mark.n) =>
                  /\ last_mark'.by = u /\ last_mark'.iter = vu[u].iter
                  /\ last_mark'.error.kind = "Expected status" =>
                        last_mark'.error.got = records'[Len(records')].status_code
      ]_vars

\* a task whose earlier iteration was answered 500 awaits the second
\* request of an iteration in which the first was answered 200
C30_Witness ==
    \E u \in UserIds :
        /\ vu[u].pc = "http"
        /\ RequestsBefore(u) # {}
        /\ vu[u].last.status_code = 200
        /\ \E i \in DOMAIN records :
              /\ records[i].vu = u
              /\ records[i].iter < vu[u].iter
              /\ records[i].status_code = 500

(***************************************************************************)
(* Properties of the failures inside a virtual user.                       *)
(***************************************************************************)
\* the iteration of task u is ended by an exception of this kind in this step
Ends(u, kind) == Ended(u, kind)' # Ended(u, kind)

\* C31: an iteration that a transport failure of a Request step ended has
\* for it exactly one failed record, with status code 0 and the error set,
\* and this record is the last of the iteration: no request of the iteration
\* is in flight and the task was not ended.  The step in which the request
\* fails appends this one record and marks none, and the task goes on: in
\* continuous mode it is at the asyncio.sleep(0) after the scenario, in a
\* single pass it has entered the next scenario or has returned after the
\* last one.
C31_TransportFailureEndsIteration ==
    /\ [](\A u \in UserIds : \A k \in Ended(u, "transport") :
            LET failedOnes == {i \in RecordsOf(u, k) : ~records[i].success}
            IN /\ Cardinality(failedOnes) = 1
               /\ \A i \in failedOnes :
                     /\ records[i].status_code = 0
                     /\ records[i].error = Err("transport", 0, 0, <<>>)
                     /\ \A j \in RecordsOf(u, k) : j <= i
               /\ ~InFlight(u, k)
               /\ vu[u].iter = k => Alive(vu[u]))
    /\ [][\A u \in UserIds : Ends(u, "transport") =>
            /\ Completes(u)
            /\ Len(records') = Len(records) + 1
            /\ records'[Len(records')].vu = u
            /\ ~records'[Len(records')].success
            /\ last_mark' = last_mark
            /\ IF orch.single_pass
               THEN \/ vu'[u].iter = vu[u].iter + 1 /\ vu'[u].sc = vu[u].sc + 1
                    \/ vu'[u].pc = "done" /\ vu[u].sc = Len(scenarios)
               ELSE /\ vu'[u].pc = "sleep0"
                    /\ vu'[u].sc = vu[u].sc /\ vu'[u].iter = vu[u].iter
                    /\ vu'[u].st = vu[u].st
      ]_vars

\* a task whose first request failed at the transport level, before the
\* expect step of its scenario, has since completed a request of a later
\* iteration
C31_Witness ==
    \E u \in UserIds : \E k \in Ended(u, "transport") :
        /\ \E i \in RecordsOf(u, k) : records[i].status_code = 0
        /\ \E j \in DOMAIN records :
              records[j].vu = u /\ records[j].iter > k /\ records[j].success

\* the messages of the RuntimeError of an expect step with an empty cursor
NoResponseYet ==
    {"expect status used before any request", "expect json used before any request"}

\* C32 (as stated, for run_test): the RuntimeError of an expect step executed
\* with an empty cursor is never turned into a failed outcome: no scenario
\* result carries it, and a run in which it was raised has not returned a
\* result.
C32_ExpectBeforeRequestIsNotAFailedOutcome ==
    \A i \in DOMAIN run.scenario_results :
        /\ run.scenario_results[i].error.kind \notin NoResponseYet
        /\ scenarios[i].steps[1].t \in {"ExpectStatus", "ExpectJson"}
              => run.pc # "returned"

\* C33: the step that cancels a task whose request is in flight appends no
\* record and changes none, and the cancellation is not a transport failure
\* of the iteration: the task ends cancelled, without an error and with the
\* problems it had.  A cancelled task never runs again, so the records of a
\* cancelled task are those of its requests that completed or failed before.
C33_CancelledRequestLeavesNoRecord ==
    [][\A u \in UserIds :
         /\ (vu[u].pc = "http" /\ vu'[u].pc = "cancelled") =>
               /\ records' = records
               /\ last_mark' = last_mark
               /\ vu'[u].problems = vu[u].problems
               /\ vu'[u].exc = NoError
               /\ vu'[u].req = NoRequest
               /\ vu'[u].iter = vu[u].iter /\ vu'[u].st = vu[u].st
               /\ Cardinality(RecordsOf(u, vu[u].iter)')
                    = Cardinality(RequestsBefore(u))
         /\ vu[u].pc = "cancelled" =>
               /\ vu'[u] = vu[u]
               /\ \A k \in 1 .. vu[u].iter : RecordsOf(u, k)' = RecordsOf(u, k)
    ]_vars

\* the run returned after cancelling a task in the second request of its
\* iteration: the iteration has the record of the first request only
C33_Witness ==
    /\ Returned
    /\ \E u \in UserIds :
          /\ vu[u].pc = "cancelled"
          /\ vu[u].sc \in DOMAIN scenarios
          /\ vu[u].st \in DOMAIN scenarios[vu[u].sc].steps
          /\ scenarios[vu[u].sc].steps[vu[u].st].t = "Request"
          /\ vu[u].st > 1
          /\ \A p \in vu[u].problems : p.iter # vu[u].iter
          /\ Cardinality(RecordsOf(u, vu[u].iter)) = 1

(***************************************************************************)
(* Properties of resolve_value_or_ref.                                     *)
(***************************************************************************)
\* C34 (as stated): resolve_value_or_ref of a literal returns what stands
\* between the quotes of the source syntax, whatever it is, and never
\* fails; of a reference it returns the value the context binds to the
\* name, as it is, or fails with an unresolved-reference error when the name
\* is absent.
C34_LiteralReturnedWithoutItsQuotes ==
    Called("resolve_value_or_ref") =>
        LET vor == call.a
            c == call.b
        IN /\ (~vor.none /\ vor.value # <<>>) =>
                 /\ call.out.ok
                 /\ call.out.val = SubSeq(vor.value, 2, Len(vor.value) - 1)
           /\ (~vor.none /\ vor.value = <<>> /\ vor.ref # <<>>) =>
                 IF vor.ref \in DOMAIN c
                 THEN call.out.ok /\ call.out.val = c[vor.ref]
                 ELSE ~call.out.ok /\ call.out.err.kind = "Reference not found"

(***************************************************************************)
(* Properties of the return of run_load_test_async.                        *)
(***************************************************************************)
\* C35: when run_load_test_async has returned, in either mode, every task it
\* spawned has returned, was ended by an exception or was cancelled, none is
\* at an await; metrics.stop() was called after metrics.start(), so that
\* elapsed_seconds is end - start whenever it is read; and from then on no
\* record is appended or changed and no task runs.
C35_NothingRunsAfterReturn ==
    /\ [](Returned =>
            /\ \A u \in UserIds :
                  /\ ~Pending(vu[u])
                  /\ u < num_users <=> Finished(vu[u])
            /\ start_time > 0
            /\ end_time >= start_time
            /\ \A t \in now .. (now + MaxSeconds) :
                  elapsed_seconds(start_time, end_time, t) = end_time - start_time)
    /\ [][Returned =>
            /\ records' = records
            /\ last_mark' = last_mark
            /\ vu' = vu
            /\ start_time' = start_time /\ end_time' = end_time
      ]_vars
    /\ [][Returned' /\ ~Returned =>
            /\ records' = records
            /\ end_time' = now'
            /\ \A u \in UserIds : ~Pending(vu[u]) => vu'[u] = vu[u]
      ]_vars

\* a continuous run returned with one task returned and one cancelled at its
\* request, after the grace period
C35_Witness ==
    /\ Returned
    /\ ContinuousRun
    /\ end_time >= stop_time + Ticks(GRACE_SECONDS)
    /\ records # <<>>
    /\ \E u, w \in UserIds : vu[u].pc = "cancelled" /\ vu[w].pc = "done"

\* the exceptions of an iteration that are neither an AssertionError of an
\* expect step nor a transport failure of a Request step
OtherExceptions ==
    NoResponseYet \cup
    {"Unknown variable in template", "JSONDecodeError", "Reference not found",
     "Missing value", "Invalid ValueOrRef", "Unsupported JsonCheckKind",
     "Unsupported step type"}

\* task u is ended by an exception in this step
Fails(u) == vu'[u].pc = "failed" /\ vu[u].pc # "failed"

\* C36: an iteration whose scenario raises another exception (its first
\* step is an expect step, or the path of its first request names an unknown
\* variable) never gets past it: the task is ended by that exception, and
\* only a task ended by such an exception carries one.  The step in which a
\* task is so ended changes no other task, leaves the orchestrator and the
\* stop event as they are, and appends or marks no failed record for the
\* iteration that raised (in a single pass the step may begin with the end
\* of the iteration before it); the ended task never runs again.  In continuous mode another task returns only once the stop
\* event is set, and run_load_test_async raises only for its arguments,
\* before any task runs.
C36_OtherExceptionEndsOnlyItsTask ==
    /\ [](\A u \in UserIds :
            /\ vu[u].pc = "failed" <=> vu[u].exc # NoError
            /\ vu[u].pc = "failed" => vu[u].exc.kind \in OtherExceptions
            /\ vu[u].pc \in {"http", "sleep0"} =>
                  LET first == scenarios[vu[u].sc].steps[1]
                  IN first.t = "Request" /\ interpolate(first.path, ctx).ok
            /\ (ContinuousRun /\ vu[u].pc \in {"done", "cancelled"}) => stop_event)
    /\ [](orch.exc # NoError <=> orch.pc = "raised")
    /\ [](orch.pc = "raised" => num_users <= 0 /\ \A u \in UserIds : vu[u] = NoTask)
    /\ [][\A u \in UserIds :
            /\ Fails(u) =>
                  /\ \A w \in UserIds \ {u} : vu'[w] = vu[w]
                  /\ orch' = orch /\ stop_event' = stop_event
                  /\ last_mark' # last_mark =>
                        last_mark'.by = u /\ last_mark'.iter < vu'[u].iter
                  /\ \A i \in DOMAIN records : records'[i] = records[i]
                  /\ \A i \in DOMAIN records' \ DOMAIN records :
                        /\ records'[i].vu = u
                        /\ records'[i].iter = vu'[u].iter => records'[i].success
            /\ vu[u].pc = "failed" => vu'[u] = vu[u]
      ]_vars

\* a continuous run returned without raising: one task was ended by an
\* undecodable body, and another task completed a request after that and
\* returned at the stop event
C36_Witness ==
    /\ Returned
    /\ ContinuousRun
    /\ orch.exc = NoError
    /\ \E u, w \in UserIds :
          /\ vu[u].pc = "failed"
          /\ vu[u].exc.kind = "JSONDecodeError"
          /\ vu[w].pc = "done"
          /\ \E j \in DOMAIN records :
                /\ records[j].vu = w
                /\ \A i \in DOMAIN records : records[i].vu = u => i < j

(***************************************************************************)
(* Properties of the failed preflight of run_test.                         *)
(***************************************************************************)
\* C37: when the auth preflight has failed, for whatever reason, the context
\* is the one resolved from the test block before the preflight (authToken
\* is neither added nor overwritten) and the client has no Authorization
\* header.
C37_FailedPreflightLeavesContextAndHeaders ==
    AuthFailedRun =>
        /\ run.ctx = ResolvedContext
        /\ run.authorization = <<>>
        /\ \A i \in ScenarioRequests : run.log[i].authorization = <<>>

\* the preflight failed because the test block binds authToken itself: the
\* login had returned a token, and the context still holds the value of the
\* test block
C37_Witness ==
    /\ AuthFailedRun
    /\ run.auth_result.error.kind = "Reserved name conflict"
    /\ IsSuccess(run.login_response)
    /\ AuthTokenKey \in DOMAIN run.ctx
    /\ run.ctx[AuthTokenKey] = <<"T", "1">>

(***************************************************************************)
(* Properties of RunResult.                                                *)
(***************************************************************************)
\* C38: for the result of run_test, at every moment of the run,
\* scenario_passed + scenario_failed is the number of scenario results,
\* total_steps is that number plus one when there is an auth result,
\* steps_passed + failed is total_steps and failed lies between 0 and
\* total_steps; when the preflight failed the result has no scenario result
\* and failed = total_steps = 1.
C38_RunResultCountsAddUp ==
    LET steps == RunResultSteps(Result)
        n == Len(Result.scenarios)
    IN /\ steps.scenario_passed + steps.scenario_failed = n
       /\ steps.total_steps = n + (IF AuthPresent /\ Result.auth.given THEN 1 ELSE 0)
       /\ Result.auth.given => AuthPresent
       /\ steps.steps_passed + failed(Result) = steps.total_steps
       /\ 0 <= failed(Result) /\ failed(Result) <= steps.total_steps
       /\ steps.steps_passed >= 0
       /\ AuthFailedRun =>
             /\ Result.scenarios = <<>>
             /\ failed(Result) = 1
             /\ steps.total_steps = 1
             /\ steps.steps_passed = 0

\* run_test returned after a successful preflight with one scenario passed
\* and one failed: three steps, two of them passed
C38_Witness ==
    /\ run.pc = "returned"
    /\ AuthSucceeded
    /\ RunResultSteps(Result).total_steps = 3
    /\ RunResultSteps(Result).scenario_passed = 1
    /\ RunResultSteps(Result).scenario_failed = 1
    /\ RunResultSteps(Result).steps_passed = 2

(***************************************************************************)
(* Properties of the verdict of a load run.                                *)
(***************************************************************************)
\* C39: for a result whose summary was computed by summary(), the result
\* line of the report says PASS exactly when success is true, and exactly
\* when failed_requests is 0 and the auth outcome is not False; the error
\* rate of the summary is 0 exactly when failed_requests is 0, also with no
\* record at all.
C39_ResultLineAgreesWithSuccess ==
    /\ [](Called("_render_result_line") =>
            LET auth_success == call.a
                s == call.b
                notFalse == ~(auth_success.given /\ auth_success.value = FALSE)
            IN /\ call.out.ok
               /\ call.out.val \in {"PASS", "FAIL"}
               /\ (call.out.val = "PASS") <=> LoadTestResult_success(auth_success, s)
               /\ (call.out.val = "PASS") <=> (s.failed_requests = 0 /\ notFalse)
               /\ (s.error_rate.num = 0) <=> (s.failed_requests = 0)
               /\ s.total_requests = 0 =>
                     s.failed_requests = 0 /\ s.error_rate.num = 0)
    /\ [](Called("success") =>
            (call.out.val <=> render_result_line(call.a, call.b) = "PASS"))
    /\ [][ArgumentsKept]_vars

\* the report of a run with requests, one of them failed, and a passed
\* preflight says FAIL
C39_Witness ==
    /\ Called("_render_result_line")
    /\ call.a.given /\ call.a.value
    /\ call.b.total_requests > 1
    /\ call.b.failed_requests = 1
    /\ call.out.val = "FAIL"
    /\ ~LoadTestResult_success(call.a, call.b)

(***************************************************************************)
(* Properties of _compute_latency_stats.                                   *)
(***************************************************************************)
\* the latencies of the records rs
Latencies(rs) == {rs[i].latency_ms : i \in DOMAIN rs}

\* v, in hundredths of a millisecond, lies between two adjacent order
\* statistics of the latencies lats: between two of them with no third
\* strictly between
BetweenAdjacent(v, lats) ==
    \E x, y \in lats :
        /\ 100 * x <= v /\ v <= 100 * y
        /\ ~\E z \in lats : x < z /\ z < y

\* the statistics s are those of an ordered summary of the latencies lats
OrderedStats(s, lats) ==
    /\ s.latency_min_ms \in lats /\ \A x \in lats : s.latency_min_ms <= x
    /\ s.latency_max_ms \in lats /\ \A x \in lats : x <= s.latency_max_ms
    /\ 100 * s.latency_min_ms <= s.latency_p50_ms
    /\ s.latency_p50_ms <= s.latency_p95_ms
    /\ s.latency_p95_ms <= s.latency_p99_ms
    /\ s.latency_p99_ms <= 100 * s.latency_max_ms
    /\ s.latency_avg_ms.den > 0
    /\ s.latency_min_ms * s.latency_avg_ms.den <= s.latency_avg_ms.num
    /\ s.latency_avg_ms.num <= s.latency_max_ms * s.latency_avg_ms.den
    /\ BetweenAdjacent(s.latency_p50_ms, lats)
    /\ BetweenAdjacent(s.latency_p95_ms, lats)
    /\ BetweenAdjacent(s.latency_p99_ms, lats)

\* C40: the statistics that summary() takes from _compute_latency_stats for
\* a non-empty list of latencies, of the whole run and of each scenario,
\* satisfy min <= p50 <= p95 <= p99 <= max and min <= mean <= max, and each
\* percentile lies between two adjacent order statistics of the list; so
\* does every percentile _percentile returns for a non-empty sorted list.
C40_LatencyStatsAreOrdered ==
    /\ [](Called("summary") /\ call.a # <<>> =>
            /\ call.out.ok
            /\ OrderedStats(call.out.val, Latencies(call.a))
            /\ \A i \in DOMAIN call.out.val.scenarios :
                  LET sc == call.out.val.scenarios[i]
                  IN OrderedStats(sc,
                        Latencies(SelectSeq(call.a, LAMBDA r : r.scenario = sc.name))))
    /\ [](Called("_percentile") /\ call.a # <<>> /\ call.b <= 100 =>
            BetweenAdjacent(call.out.val, {call.a[i] : i \in DOMAIN call.a}))
    /\ [][ArgumentsKept]_vars

\* three requests of 9, 1 and 4 ms: the median is 4 ms, and the 95th and the
\* 99th percentile lie strictly between 4 and 9 ms, below the maximum
C40_Witness ==
    /\ Called("summary")
    /\ [i \in DOMAIN call.a |-> call.a[i].latency_ms] = <<9, 1, 4>>
    /\ call.out.val.latency_min_ms = 1
    /\ call.out.val.latency_p50_ms = 400
    /\ call.out.val.latency_p95_ms = 850
    /\ call.out.val.latency_p99_ms = 890
    /\ call.out.val.latency_max_ms = 9
    /\ call.out.val.latency_avg_ms = [num |-> 14, den |-> 3]

====
